---- MODULE Spec2Model ----
(***************************************************************************)
(* A model of src/main.py: the term algebra (Var, Cont, Imply, MetaVar),   *)
(* the substitution Term.meta_replace, the prefix parser that builds the   *)
(* axiom table, and the replay of a Proof by Proof.statements and          *)
(* Proof.verify.                                                           *)
(*                                                                         *)
(* Every Python value is a record with a "tag" field, so that any two      *)
(* values can be compared: instances of the four dataclasses, the class    *)
(* object Cont itself (parse returns it for "!"), None, a list, a bool,    *)
(* and a raised exception.                                                 *)
(***************************************************************************)
EXTENDS Integers, Sequences, FiniteSets, TLC

VARIABLES
    goal,          \* Proof.goal
    inferences,    \* Proof.inferences
    res,           \* the local list res of Proof.statements
    i,             \* number of elements of inferences the for loop has consumed
    pc,            \* "statements" | "verify" | "done" | "raised" | "idle"
    ret,           \* what statements() returned to verify (None or a list)
    result,        \* what verify() returned (a bool), NoValue before
    exc,           \* the exception that left verify(), NoValue when none
    mr,            \* a function called on its own: its arguments and ret
                   \* (Term.meta_replace, the ModI check, parse)
    proofs,        \* Proof objects several calls of verify() work on
    runs           \* those calls: each one's proof, res, i, pc, ret, result, exc

vars == <<goal, inferences, res, i, pc, ret, result, exc, mr, proofs, runs>>

-----------------------------------------------------------------------------
(* Python values *)

NoValue == [tag |-> "no value"]
None == [tag |-> "None"]
True == [tag |-> "bool", b |-> TRUE]
False == [tag |-> "bool", b |-> FALSE]
List(items) == [tag |-> "list", items |-> items]
Raise(e) == [tag |-> "raise", exc |-> e]
IsRaise(v) == v.tag = "raise"

(* The dataclasses. Var(v), Imply(p, c), MetaVar(v) and ContInst are        *)
(* instances; ContInst is Cont(). Cont is the class object itself.          *)
Var(v) == [tag |-> "Var", value |-> v]
ContInst == [tag |-> "Cont"]
Cont == [tag |-> "class", name |-> "Cont"]
Imply(p, c) == [tag |-> "Imply", premise |-> p, conclusion |-> c]
MetaVar(v) == [tag |-> "MetaVar", value |-> v]

(* isinstance(v, cls) for the instances above; a class object is an         *)
(* instance of none of them.                                                *)
isinstance(v, tags) == v.tag \in tags

-----------------------------------------------------------------------------
(* Term.meta_replace *)

(* meta_replace without the comparison of the metavariable's value. *)
RECURSIVE meta_replace_any(_, _, _)
meta_replace_any(self, value, term) ==
    IF self.tag = "class" THEN Raise("TypeError")
    ELSE IF isinstance(self, {"Var", "Cont"}) THEN self
    ELSE IF isinstance(self, {"Imply"})
    THEN LET p == meta_replace_any(self.premise, value, term)
         IN  IF IsRaise(p) THEN p
             ELSE LET c == meta_replace_any(self.conclusion, value, term)
                  IN  IF IsRaise(c) THEN c ELSE Imply(p, c)
    ELSE IF isinstance(self, {"MetaVar"}) THEN term
    ELSE Raise("ValueError")

RECURSIVE meta_replace(_, _, _)
meta_replace(self, value, term) ==
    IF self.tag = "class"
    \* self.premise is the class Cont: Cont.meta_replace is the plain
    \* function, (value, term) bind to (self, value) and term is missing.
    THEN Raise("TypeError")
    ELSE IF isinstance(self, {"Var", "Cont"})
    THEN self
    ELSE IF isinstance(self, {"Imply"})
    THEN LET p == meta_replace(self.premise, value, term)
         IN  IF IsRaise(p) THEN p
             ELSE LET c == meta_replace(self.conclusion, value, term)
                  IN  IF IsRaise(c) THEN c ELSE Imply(p, c)
    ELSE IF isinstance(self, {"MetaVar"})
    THEN IF self.value = value THEN term ELSE self
    ELSE Raise("ValueError")

-----------------------------------------------------------------------------
(* parse                                                                    *)
(*                                                                          *)
(* A str is the sequence of the code points of its characters, and a        *)
(* character is a str of length 1: <<62, 65>> is ">A" and <<65>> is "A".    *)
(* The characters written below: 33 "!", 45 "-", 62 ">", 65 "A", 66 "B",    *)
(* 67 "C", 97 "a", 98 "b", 99 "c", 201 and 233 the letters E and e with an  *)
(* acute accent.                                                            *)

(* The code points, as ranges <<first, last>>, of the characters c with     *)
(* c.isalpha(), c.islower(), c.isupper(), and of the titlecase letters      *)
(* (Unicode 14.0.0, the data of the Python that runs main.py).              *)
Alphabetic == {
    <<65, 90>>, <<97, 122>>, <<170, 170>>, <<181, 181>>, <<186, 186>>,
    <<192, 214>>, <<216, 246>>, <<248, 705>>, <<710, 721>>, <<736, 740>>,
    <<748, 748>>, <<750, 750>>, <<880, 884>>, <<886, 887>>, <<890, 893>>,
    <<895, 895>>, <<902, 902>>, <<904, 906>>, <<908, 908>>, <<910, 929>>,
    <<931, 1013>>, <<1015, 1153>>, <<1162, 1327>>, <<1329, 1366>>,
    <<1369, 1369>>, <<1376, 1416>>, <<1488, 1514>>, <<1519, 1522>>,
    <<1568, 1610>>, <<1646, 1647>>, <<1649, 1747>>, <<1749, 1749>>,
    <<1765, 1766>>, <<1774, 1775>>, <<1786, 1788>>, <<1791, 1791>>,
    <<1808, 1808>>, <<1810, 1839>>, <<1869, 1957>>, <<1969, 1969>>,
    <<1994, 2026>>, <<2036, 2037>>, <<2042, 2042>>, <<2048, 2069>>,
    <<2074, 2074>>, <<2084, 2084>>, <<2088, 2088>>, <<2112, 2136>>,
    <<2144, 2154>>, <<2160, 2183>>, <<2185, 2190>>, <<2208, 2249>>,
    <<2308, 2361>>, <<2365, 2365>>, <<2384, 2384>>, <<2392, 2401>>,
    <<2417, 2432>>, <<2437, 2444>>, <<2447, 2448>>, <<2451, 2472>>,
    <<2474, 2480>>, <<2482, 2482>>, <<2486, 2489>>, <<2493, 2493>>,
    <<2510, 2510>>, <<2524, 2525>>, <<2527, 2529>>, <<2544, 2545>>,
    <<2556, 2556>>, <<2565, 2570>>, <<2575, 2576>>, <<2579, 2600>>,
    <<2602, 2608>>, <<2610, 2611>>, <<2613, 2614>>, <<2616, 2617>>,
    <<2649, 2652>>, <<2654, 2654>>, <<2674, 2676>>, <<2693, 2701>>,
    <<2703, 2705>>, <<2707, 2728>>, <<2730, 2736>>, <<2738, 2739>>,
    <<2741, 2745>>, <<2749, 2749>>, <<2768, 2768>>, <<2784, 2785>>,
    <<2809, 2809>>, <<2821, 2828>>, <<2831, 2832>>, <<2835, 2856>>,
    <<2858, 2864>>, <<2866, 2867>>, <<2869, 2873>>, <<2877, 2877>>,
    <<2908, 2909>>, <<2911, 2913>>, <<2929, 2929>>, <<2947, 2947>>,
    <<2949, 2954>>, <<2958, 2960>>, <<2962, 2965>>, <<2969, 2970>>,
    <<2972, 2972>>, <<2974, 2975>>, <<2979, 2980>>, <<2984, 2986>>,
    <<2990, 3001>>, <<3024, 3024>>, <<3077, 3084>>, <<3086, 3088>>,
    <<3090, 3112>>, <<3114, 3129>>, <<3133, 3133>>, <<3160, 3162>>,
    <<3165, 3165>>, <<3168, 3169>>, <<3200, 3200>>, <<3205, 3212>>,
    <<3214, 3216>>, <<3218, 3240>>, <<3242, 3251>>, <<3253, 3257>>,
    <<3261, 3261>>, <<3293, 3294>>, <<3296, 3297>>, <<3313, 3314>>,
    <<3332, 3340>>, <<3342, 3344>>, <<3346, 3386>>, <<3389, 3389>>,
    <<3406, 3406>>, <<3412, 3414>>, <<3423, 3425>>, <<3450, 3455>>,
    <<3461, 3478>>, <<3482, 3505>>, <<3507, 3515>>, <<3517, 3517>>,
    <<3520, 3526>>, <<3585, 3632>>, <<3634, 3635>>, <<3648, 3654>>,
    <<3713, 3714>>, <<3716, 3716>>, <<3718, 3722>>, <<3724, 3747>>,
    <<3749, 3749>>, <<3751, 3760>>, <<3762, 3763>>, <<3773, 3773>>,
    <<3776, 3780>>, <<3782, 3782>>, <<3804, 3807>>, <<3840, 3840>>,
    <<3904, 3911>>, <<3913, 3948>>, <<3976, 3980>>, <<4096, 4138>>,
    <<4159, 4159>>, <<4176, 4181>>, <<4186, 4189>>, <<4193, 4193>>,
    <<4197, 4198>>, <<4206, 4208>>, <<4213, 4225>>, <<4238, 4238>>,
    <<4256, 4293>>, <<4295, 4295>>, <<4301, 4301>>, <<4304, 4346>>,
    <<4348, 4680>>, <<4682, 4685>>, <<4688, 4694>>, <<4696, 4696>>,
    <<4698, 4701>>, <<4704, 4744>>, <<4746, 4749>>, <<4752, 4784>>,
    <<4786, 4789>>, <<4792, 4798>>, <<4800, 4800>>, <<4802, 4805>>,
    <<4808, 4822>>, <<4824, 4880>>, <<4882, 4885>>, <<4888, 4954>>,
    <<4992, 5007>>, <<5024, 5109>>, <<5112, 5117>>, <<5121, 5740>>,
    <<5743, 5759>>, <<5761, 5786>>, <<5792, 5866>>, <<5873, 5880>>,
    <<5888, 5905>>, <<5919, 5937>>, <<5952, 5969>>, <<5984, 5996>>,
    <<5998, 6000>>, <<6016, 6067>>, <<6103, 6103>>, <<6108, 6108>>,
    <<6176, 6264>>, <<6272, 6276>>, <<6279, 6312>>, <<6314, 6314>>,
    <<6320, 6389>>, <<6400, 6430>>, <<6480, 6509>>, <<6512, 6516>>,
    <<6528, 6571>>, <<6576, 6601>>, <<6656, 6678>>, <<6688, 6740>>,
    <<6823, 6823>>, <<6917, 6963>>, <<6981, 6988>>, <<7043, 7072>>,
    <<7086, 7087>>, <<7098, 7141>>, <<7168, 7203>>, <<7245, 7247>>,
    <<7258, 7293>>, <<7296, 7304>>, <<7312, 7354>>, <<7357, 7359>>,
    <<7401, 7404>>, <<7406, 7411>>, <<7413, 7414>>, <<7418, 7418>>,
    <<7424, 7615>>, <<7680, 7957>>, <<7960, 7965>>, <<7968, 8005>>,
    <<8008, 8013>>, <<8016, 8023>>, <<8025, 8025>>, <<8027, 8027>>,
    <<8029, 8029>>, <<8031, 8061>>, <<8064, 8116>>, <<8118, 8124>>,
    <<8126, 8126>>, <<8130, 8132>>, <<8134, 8140>>, <<8144, 8147>>,
    <<8150, 8155>>, <<8160, 8172>>, <<8178, 8180>>, <<8182, 8188>>,
    <<8305, 8305>>, <<8319, 8319>>, <<8336, 8348>>, <<8450, 8450>>,
    <<8455, 8455>>, <<8458, 8467>>, <<8469, 8469>>, <<8473, 8477>>,
    <<8484, 8484>>, <<8486, 8486>>, <<8488, 8488>>, <<8490, 8493>>,
    <<8495, 8505>>, <<8508, 8511>>, <<8517, 8521>>, <<8526, 8526>>,
    <<8579, 8580>>, <<11264, 11492>>, <<11499, 11502>>, <<11506, 11507>>,
    <<11520, 11557>>, <<11559, 11559>>, <<11565, 11565>>, <<11568, 11623>>,
    <<11631, 11631>>, <<11648, 11670>>, <<11680, 11686>>, <<11688, 11694>>,
    <<11696, 11702>>, <<11704, 11710>>, <<11712, 11718>>, <<11720, 11726>>,
    <<11728, 11734>>, <<11736, 11742>>, <<11823, 11823>>, <<12293, 12294>>,
    <<12337, 12341>>, <<12347, 12348>>, <<12353, 12438>>, <<12445, 12447>>,
    <<12449, 12538>>, <<12540, 12543>>, <<12549, 12591>>, <<12593, 12686>>,
    <<12704, 12735>>, <<12784, 12799>>, <<13312, 19903>>, <<19968, 42124>>,
    <<42192, 42237>>, <<42240, 42508>>, <<42512, 42527>>, <<42538, 42539>>,
    <<42560, 42606>>, <<42623, 42653>>, <<42656, 42725>>, <<42775, 42783>>,
    <<42786, 42888>>, <<42891, 42954>>, <<42960, 42961>>, <<42963, 42963>>,
    <<42965, 42969>>, <<42994, 43009>>, <<43011, 43013>>, <<43015, 43018>>,
    <<43020, 43042>>, <<43072, 43123>>, <<43138, 43187>>, <<43250, 43255>>,
    <<43259, 43259>>, <<43261, 43262>>, <<43274, 43301>>, <<43312, 43334>>,
    <<43360, 43388>>, <<43396, 43442>>, <<43471, 43471>>, <<43488, 43492>>,
    <<43494, 43503>>, <<43514, 43518>>, <<43520, 43560>>, <<43584, 43586>>,
    <<43588, 43595>>, <<43616, 43638>>, <<43642, 43642>>, <<43646, 43695>>,
    <<43697, 43697>>, <<43701, 43702>>, <<43705, 43709>>, <<43712, 43712>>,
    <<43714, 43714>>, <<43739, 43741>>, <<43744, 43754>>, <<43762, 43764>>,
    <<43777, 43782>>, <<43785, 43790>>, <<43793, 43798>>, <<43808, 43814>>,
    <<43816, 43822>>, <<43824, 43866>>, <<43868, 43881>>, <<43888, 44002>>,
    <<44032, 55203>>, <<55216, 55238>>, <<55243, 55291>>, <<63744, 64109>>,
    <<64112, 64217>>, <<64256, 64262>>, <<64275, 64279>>, <<64285, 64285>>,
    <<64287, 64296>>, <<64298, 64310>>, <<64312, 64316>>, <<64318, 64318>>,
    <<64320, 64321>>, <<64323, 64324>>, <<64326, 64433>>, <<64467, 64829>>,
    <<64848, 64911>>, <<64914, 64967>>, <<65008, 65019>>, <<65136, 65140>>,
    <<65142, 65276>>, <<65313, 65338>>, <<65345, 65370>>, <<65382, 65470>>,
    <<65474, 65479>>, <<65482, 65487>>, <<65490, 65495>>, <<65498, 65500>>,
    <<65536, 65547>>, <<65549, 65574>>, <<65576, 65594>>, <<65596, 65597>>,
    <<65599, 65613>>, <<65616, 65629>>, <<65664, 65786>>, <<66176, 66204>>,
    <<66208, 66256>>, <<66304, 66335>>, <<66349, 66368>>, <<66370, 66377>>,
    <<66384, 66421>>, <<66432, 66461>>, <<66464, 66499>>, <<66504, 66511>>,
    <<66560, 66717>>, <<66736, 66771>>, <<66776, 66811>>, <<66816, 66855>>,
    <<66864, 66915>>, <<66928, 66938>>, <<66940, 66954>>, <<66956, 66962>>,
    <<66964, 66965>>, <<66967, 66977>>, <<66979, 66993>>, <<66995, 67001>>,
    <<67003, 67004>>, <<67072, 67382>>, <<67392, 67413>>, <<67424, 67431>>,
    <<67456, 67461>>, <<67463, 67504>>, <<67506, 67514>>, <<67584, 67589>>,
    <<67592, 67592>>, <<67594, 67637>>, <<67639, 67640>>, <<67644, 67644>>,
    <<67647, 67669>>, <<67680, 67702>>, <<67712, 67742>>, <<67808, 67826>>,
    <<67828, 67829>>, <<67840, 67861>>, <<67872, 67897>>, <<67968, 68023>>,
    <<68030, 68031>>, <<68096, 68096>>, <<68112, 68115>>, <<68117, 68119>>,
    <<68121, 68149>>, <<68192, 68220>>, <<68224, 68252>>, <<68288, 68295>>,
    <<68297, 68324>>, <<68352, 68405>>, <<68416, 68437>>, <<68448, 68466>>,
    <<68480, 68497>>, <<68608, 68680>>, <<68736, 68786>>, <<68800, 68850>>,
    <<68864, 68899>>, <<69248, 69289>>, <<69296, 69297>>, <<69376, 69404>>,
    <<69415, 69415>>, <<69424, 69445>>, <<69488, 69505>>, <<69552, 69572>>,
    <<69600, 69622>>, <<69635, 69687>>, <<69745, 69746>>, <<69749, 69749>>,
    <<69763, 69807>>, <<69840, 69864>>, <<69891, 69926>>, <<69956, 69956>>,
    <<69959, 69959>>, <<69968, 70002>>, <<70006, 70006>>, <<70019, 70066>>,
    <<70081, 70084>>, <<70106, 70106>>, <<70108, 70108>>, <<70144, 70161>>,
    <<70163, 70187>>, <<70272, 70278>>, <<70280, 70280>>, <<70282, 70285>>,
    <<70287, 70301>>, <<70303, 70312>>, <<70320, 70366>>, <<70405, 70412>>,
    <<70415, 70416>>, <<70419, 70440>>, <<70442, 70448>>, <<70450, 70451>>,
    <<70453, 70457>>, <<70461, 70461>>, <<70480, 70480>>, <<70493, 70497>>,
    <<70656, 70708>>, <<70727, 70730>>, <<70751, 70753>>, <<70784, 70831>>,
    <<70852, 70853>>, <<70855, 70855>>, <<71040, 71086>>, <<71128, 71131>>,
    <<71168, 71215>>, <<71236, 71236>>, <<71296, 71338>>, <<71352, 71352>>,
    <<71424, 71450>>, <<71488, 71494>>, <<71680, 71723>>, <<71840, 71903>>,
    <<71935, 71942>>, <<71945, 71945>>, <<71948, 71955>>, <<71957, 71958>>,
    <<71960, 71983>>, <<71999, 71999>>, <<72001, 72001>>, <<72096, 72103>>,
    <<72106, 72144>>, <<72161, 72161>>, <<72163, 72163>>, <<72192, 72192>>,
    <<72203, 72242>>, <<72250, 72250>>, <<72272, 72272>>, <<72284, 72329>>,
    <<72349, 72349>>, <<72368, 72440>>, <<72704, 72712>>, <<72714, 72750>>,
    <<72768, 72768>>, <<72818, 72847>>, <<72960, 72966>>, <<72968, 72969>>,
    <<72971, 73008>>, <<73030, 73030>>, <<73056, 73061>>, <<73063, 73064>>,
    <<73066, 73097>>, <<73112, 73112>>, <<73440, 73458>>, <<73648, 73648>>,
    <<73728, 74649>>, <<74880, 75075>>, <<77712, 77808>>, <<77824, 78894>>,
    <<82944, 83526>>, <<92160, 92728>>, <<92736, 92766>>, <<92784, 92862>>,
    <<92880, 92909>>, <<92928, 92975>>, <<92992, 92995>>, <<93027, 93047>>,
    <<93053, 93071>>, <<93760, 93823>>, <<93952, 94026>>, <<94032, 94032>>,
    <<94099, 94111>>, <<94176, 94177>>, <<94179, 94179>>, <<94208, 100343>>,
    <<100352, 101589>>, <<101632, 101640>>, <<110576, 110579>>,
    <<110581, 110587>>, <<110589, 110590>>, <<110592, 110882>>,
    <<110928, 110930>>, <<110948, 110951>>, <<110960, 111355>>,
    <<113664, 113770>>, <<113776, 113788>>, <<113792, 113800>>,
    <<113808, 113817>>, <<119808, 119892>>, <<119894, 119964>>,
    <<119966, 119967>>, <<119970, 119970>>, <<119973, 119974>>,
    <<119977, 119980>>, <<119982, 119993>>, <<119995, 119995>>,
    <<119997, 120003>>, <<120005, 120069>>, <<120071, 120074>>,
    <<120077, 120084>>, <<120086, 120092>>, <<120094, 120121>>,
    <<120123, 120126>>, <<120128, 120132>>, <<120134, 120134>>,
    <<120138, 120144>>, <<120146, 120485>>, <<120488, 120512>>,
    <<120514, 120538>>, <<120540, 120570>>, <<120572, 120596>>,
    <<120598, 120628>>, <<120630, 120654>>, <<120656, 120686>>,
    <<120688, 120712>>, <<120714, 120744>>, <<120746, 120770>>,
    <<120772, 120779>>, <<122624, 122654>>, <<123136, 123180>>,
    <<123191, 123197>>, <<123214, 123214>>, <<123536, 123565>>,
    <<123584, 123627>>, <<124896, 124902>>, <<124904, 124907>>,
    <<124909, 124910>>, <<124912, 124926>>, <<124928, 125124>>,
    <<125184, 125251>>, <<125259, 125259>>, <<126464, 126467>>,
    <<126469, 126495>>, <<126497, 126498>>, <<126500, 126500>>,
    <<126503, 126503>>, <<126505, 126514>>, <<126516, 126519>>,
    <<126521, 126521>>, <<126523, 126523>>, <<126530, 126530>>,
    <<126535, 126535>>, <<126537, 126537>>, <<126539, 126539>>,
    <<126541, 126543>>, <<126545, 126546>>, <<126548, 126548>>,
    <<126551, 126551>>, <<126553, 126553>>, <<126555, 126555>>,
    <<126557, 126557>>, <<126559, 126559>>, <<126561, 126562>>,
    <<126564, 126564>>, <<126567, 126570>>, <<126572, 126578>>,
    <<126580, 126583>>, <<126585, 126588>>, <<126590, 126590>>,
    <<126592, 126601>>, <<126603, 126619>>, <<126625, 126627>>,
    <<126629, 126633>>, <<126635, 126651>>, <<131072, 173791>>,
    <<173824, 177976>>, <<177984, 178205>>, <<178208, 183969>>,
    <<183984, 191456>>, <<194560, 195101>>, <<196608, 201546>>
}

Lowercase == {
    <<97, 122>>, <<170, 170>>, <<181, 181>>, <<186, 186>>, <<223, 246>>,
    <<248, 255>>, <<257, 257>>, <<259, 259>>, <<261, 261>>, <<263, 263>>,
    <<265, 265>>, <<267, 267>>, <<269, 269>>, <<271, 271>>, <<273, 273>>,
    <<275, 275>>, <<277, 277>>, <<279, 279>>, <<281, 281>>, <<283, 283>>,
    <<285, 285>>, <<287, 287>>, <<289, 289>>, <<291, 291>>, <<293, 293>>,
    <<295, 295>>, <<297, 297>>, <<299, 299>>, <<301, 301>>, <<303, 303>>,
    <<305, 305>>, <<307, 307>>, <<309, 309>>, <<311, 312>>, <<314, 314>>,
    <<316, 316>>, <<318, 318>>, <<320, 320>>, <<322, 322>>, <<324, 324>>,
    <<326, 326>>, <<328, 329>>, <<331, 331>>, <<333, 333>>, <<335, 335>>,
    <<337, 337>>, <<339, 339>>, <<341, 341>>, <<343, 343>>, <<345, 345>>,
    <<347, 347>>, <<349, 349>>, <<351, 351>>, <<353, 353>>, <<355, 355>>,
    <<357, 357>>, <<359, 359>>, <<361, 361>>, <<363, 363>>, <<365, 365>>,
    <<367, 367>>, <<369, 369>>, <<371, 371>>, <<373, 373>>, <<375, 375>>,
    <<378, 378>>, <<380, 380>>, <<382, 384>>, <<387, 387>>, <<389, 389>>,
    <<392, 392>>, <<396, 397>>, <<402, 402>>, <<405, 405>>, <<409, 411>>,
    <<414, 414>>, <<417, 417>>, <<419, 419>>, <<421, 421>>, <<424, 424>>,
    <<426, 427>>, <<429, 429>>, <<432, 432>>, <<436, 436>>, <<438, 438>>,
    <<441, 442>>, <<445, 447>>, <<454, 454>>, <<457, 457>>, <<460, 460>>,
    <<462, 462>>, <<464, 464>>, <<466, 466>>, <<468, 468>>, <<470, 470>>,
    <<472, 472>>, <<474, 474>>, <<476, 477>>, <<479, 479>>, <<481, 481>>,
    <<483, 483>>, <<485, 485>>, <<487, 487>>, <<489, 489>>, <<491, 491>>,
    <<493, 493>>, <<495, 496>>, <<499, 499>>, <<501, 501>>, <<505, 505>>,
    <<507, 507>>, <<509, 509>>, <<511, 511>>, <<513, 513>>, <<515, 515>>,
    <<517, 517>>, <<519, 519>>, <<521, 521>>, <<523, 523>>, <<525, 525>>,
    <<527, 527>>, <<529, 529>>, <<531, 531>>, <<533, 533>>, <<535, 535>>,
    <<537, 537>>, <<539, 539>>, <<541, 541>>, <<543, 543>>, <<545, 545>>,
    <<547, 547>>, <<549, 549>>, <<551, 551>>, <<553, 553>>, <<555, 555>>,
    <<557, 557>>, <<559, 559>>, <<561, 561>>, <<563, 569>>, <<572, 572>>,
    <<575, 576>>, <<578, 578>>, <<583, 583>>, <<585, 585>>, <<587, 587>>,
    <<589, 589>>, <<591, 659>>, <<661, 696>>, <<704, 705>>, <<736, 740>>,
    <<837, 837>>, <<881, 881>>, <<883, 883>>, <<887, 887>>, <<890, 893>>,
    <<912, 912>>, <<940, 974>>, <<976, 977>>, <<981, 983>>, <<985, 985>>,
    <<987, 987>>, <<989, 989>>, <<991, 991>>, <<993, 993>>, <<995, 995>>,
    <<997, 997>>, <<999, 999>>, <<1001, 1001>>, <<1003, 1003>>,
    <<1005, 1005>>, <<1007, 1011>>, <<1013, 1013>>, <<1016, 1016>>,
    <<1019, 1020>>, <<1072, 1119>>, <<1121, 1121>>, <<1123, 1123>>,
    <<1125, 1125>>, <<1127, 1127>>, <<1129, 1129>>, <<1131, 1131>>,
    <<1133, 1133>>, <<1135, 1135>>, <<1137, 1137>>, <<1139, 1139>>,
    <<1141, 1141>>, <<1143, 1143>>, <<1145, 1145>>, <<1147, 1147>>,
    <<1149, 1149>>, <<1151, 1151>>, <<1153, 1153>>, <<1163, 1163>>,
    <<1165, 1165>>, <<1167, 1167>>, <<1169, 1169>>, <<1171, 1171>>,
    <<1173, 1173>>, <<1175, 1175>>, <<1177, 1177>>, <<1179, 1179>>,
    <<1181, 1181>>, <<1183, 1183>>, <<1185, 1185>>, <<1187, 1187>>,
    <<1189, 1189>>, <<1191, 1191>>, <<1193, 1193>>, <<1195, 1195>>,
    <<1197, 1197>>, <<1199, 1199>>, <<1201, 1201>>, <<1203, 1203>>,
    <<1205, 1205>>, <<1207, 1207>>, <<1209, 1209>>, <<1211, 1211>>,
    <<1213, 1213>>, <<1215, 1215>>, <<1218, 1218>>, <<1220, 1220>>,
    <<1222, 1222>>, <<1224, 1224>>, <<1226, 1226>>, <<1228, 1228>>,
    <<1230, 1231>>, <<1233, 1233>>, <<1235, 1235>>, <<1237, 1237>>,
    <<1239, 1239>>, <<1241, 1241>>, <<1243, 1243>>, <<1245, 1245>>,
    <<1247, 1247>>, <<1249, 1249>>, <<1251, 1251>>, <<1253, 1253>>,
    <<1255, 1255>>, <<1257, 1257>>, <<1259, 1259>>, <<1261, 1261>>,
    <<1263, 1263>>, <<1265, 1265>>, <<1267, 1267>>, <<1269, 1269>>,
    <<1271, 1271>>, <<1273, 1273>>, <<1275, 1275>>, <<1277, 1277>>,
    <<1279, 1279>>, <<1281, 1281>>, <<1283, 1283>>, <<1285, 1285>>,
    <<1287, 1287>>, <<1289, 1289>>, <<1291, 1291>>, <<1293, 1293>>,
    <<1295, 1295>>, <<1297, 1297>>, <<1299, 1299>>, <<1301, 1301>>,
    <<1303, 1303>>, <<1305, 1305>>, <<1307, 1307>>, <<1309, 1309>>,
    <<1311, 1311>>, <<1313, 1313>>, <<1315, 1315>>, <<1317, 1317>>,
    <<1319, 1319>>, <<1321, 1321>>, <<1323, 1323>>, <<1325, 1325>>,
    <<1327, 1327>>, <<1376, 1416>>, <<4304, 4346>>, <<4349, 4351>>,
    <<5112, 5117>>, <<7296, 7304>>, <<7424, 7615>>, <<7681, 7681>>,
    <<7683, 7683>>, <<7685, 7685>>, <<7687, 7687>>, <<7689, 7689>>,
    <<7691, 7691>>, <<7693, 7693>>, <<7695, 7695>>, <<7697, 7697>>,
    <<7699, 7699>>, <<7701, 7701>>, <<7703, 7703>>, <<7705, 7705>>,
    <<7707, 7707>>, <<7709, 7709>>, <<7711, 7711>>, <<7713, 7713>>,
    <<7715, 7715>>, <<7717, 7717>>, <<7719, 7719>>, <<7721, 7721>>,
    <<7723, 7723>>, <<7725, 7725>>, <<7727, 7727>>, <<7729, 7729>>,
    <<7731, 7731>>, <<7733, 7733>>, <<7735, 7735>>, <<7737, 7737>>,
    <<7739, 7739>>, <<7741, 7741>>, <<7743, 7743>>, <<7745, 7745>>,
    <<7747, 7747>>, <<7749, 7749>>, <<7751, 7751>>, <<7753, 7753>>,
    <<7755, 7755>>, <<7757, 7757>>, <<7759, 7759>>, <<7761, 7761>>,
    <<7763, 7763>>, <<7765, 7765>>, <<7767, 7767>>, <<7769, 7769>>,
    <<7771, 7771>>, <<7773, 7773>>, <<7775, 7775>>, <<7777, 7777>>,
    <<7779, 7779>>, <<7781, 7781>>, <<7783, 7783>>, <<7785, 7785>>,
    <<7787, 7787>>, <<7789, 7789>>, <<7791, 7791>>, <<7793, 7793>>,
    <<7795, 7795>>, <<7797, 7797>>, <<7799, 7799>>, <<7801, 7801>>,
    <<7803, 7803>>, <<7805, 7805>>, <<7807, 7807>>, <<7809, 7809>>,
    <<7811, 7811>>, <<7813, 7813>>, <<7815, 7815>>, <<7817, 7817>>,
    <<7819, 7819>>, <<7821, 7821>>, <<7823, 7823>>, <<7825, 7825>>,
    <<7827, 7827>>, <<7829, 7837>>, <<7839, 7839>>, <<7841, 7841>>,
    <<7843, 7843>>, <<7845, 7845>>, <<7847, 7847>>, <<7849, 7849>>,
    <<7851, 7851>>, <<7853, 7853>>, <<7855, 7855>>, <<7857, 7857>>,
    <<7859, 7859>>, <<7861, 7861>>, <<7863, 7863>>, <<7865, 7865>>,
    <<7867, 7867>>, <<7869, 7869>>, <<7871, 7871>>, <<7873, 7873>>,
    <<7875, 7875>>, <<7877, 7877>>, <<7879, 7879>>, <<7881, 7881>>,
    <<7883, 7883>>, <<7885, 7885>>, <<7887, 7887>>, <<7889, 7889>>,
    <<7891, 7891>>, <<7893, 7893>>, <<7895, 7895>>, <<7897, 7897>>,
    <<7899, 7899>>, <<7901, 7901>>, <<7903, 7903>>, <<7905, 7905>>,
    <<7907, 7907>>, <<7909, 7909>>, <<7911, 7911>>, <<7913, 7913>>,
    <<7915, 7915>>, <<7917, 7917>>, <<7919, 7919>>, <<7921, 7921>>,
    <<7923, 7923>>, <<7925, 7925>>, <<7927, 7927>>, <<7929, 7929>>,
    <<7931, 7931>>, <<7933, 7933>>, <<7935, 7943>>, <<7952, 7957>>,
    <<7968, 7975>>, <<7984, 7991>>, <<8000, 8005>>, <<8016, 8023>>,
    <<8032, 8039>>, <<8048, 8061>>, <<8064, 8071>>, <<8080, 8087>>,
    <<8096, 8103>>, <<8112, 8116>>, <<8118, 8119>>, <<8126, 8126>>,
    <<8130, 8132>>, <<8134, 8135>>, <<8144, 8147>>, <<8150, 8151>>,
    <<8160, 8167>>, <<8178, 8180>>, <<8182, 8183>>, <<8305, 8305>>,
    <<8319, 8319>>, <<8336, 8348>>, <<8458, 8458>>, <<8462, 8463>>,
    <<8467, 8467>>, <<8495, 8495>>, <<8500, 8500>>, <<8505, 8505>>,
    <<8508, 8509>>, <<8518, 8521>>, <<8526, 8526>>, <<8560, 8575>>,
    <<8580, 8580>>, <<9424, 9449>>, <<11312, 11359>>, <<11361, 11361>>,
    <<11365, 11366>>, <<11368, 11368>>, <<11370, 11370>>, <<11372, 11372>>,
    <<11377, 11377>>, <<11379, 11380>>, <<11382, 11389>>, <<11393, 11393>>,
    <<11395, 11395>>, <<11397, 11397>>, <<11399, 11399>>, <<11401, 11401>>,
    <<11403, 11403>>, <<11405, 11405>>, <<11407, 11407>>, <<11409, 11409>>,
    <<11411, 11411>>, <<11413, 11413>>, <<11415, 11415>>, <<11417, 11417>>,
    <<11419, 11419>>, <<11421, 11421>>, <<11423, 11423>>, <<11425, 11425>>,
    <<11427, 11427>>, <<11429, 11429>>, <<11431, 11431>>, <<11433, 11433>>,
    <<11435, 11435>>, <<11437, 11437>>, <<11439, 11439>>, <<11441, 11441>>,
    <<11443, 11443>>, <<11445, 11445>>, <<11447, 11447>>, <<11449, 11449>>,
    <<11451, 11451>>, <<11453, 11453>>, <<11455, 11455>>, <<11457, 11457>>,
    <<11459, 11459>>, <<11461, 11461>>, <<11463, 11463>>, <<11465, 11465>>,
    <<11467, 11467>>, <<11469, 11469>>, <<11471, 11471>>, <<11473, 11473>>,
    <<11475, 11475>>, <<11477, 11477>>, <<11479, 11479>>, <<11481, 11481>>,
    <<11483, 11483>>, <<11485, 11485>>, <<11487, 11487>>, <<11489, 11489>>,
    <<11491, 11492>>, <<11500, 11500>>, <<11502, 11502>>, <<11507, 11507>>,
    <<11520, 11557>>, <<11559, 11559>>, <<11565, 11565>>, <<42561, 42561>>,
    <<42563, 42563>>, <<42565, 42565>>, <<42567, 42567>>, <<42569, 42569>>,
    <<42571, 42571>>, <<42573, 42573>>, <<42575, 42575>>, <<42577, 42577>>,
    <<42579, 42579>>, <<42581, 42581>>, <<42583, 42583>>, <<42585, 42585>>,
    <<42587, 42587>>, <<42589, 42589>>, <<42591, 42591>>, <<42593, 42593>>,
    <<42595, 42595>>, <<42597, 42597>>, <<42599, 42599>>, <<42601, 42601>>,
    <<42603, 42603>>, <<42605, 42605>>, <<42625, 42625>>, <<42627, 42627>>,
    <<42629, 42629>>, <<42631, 42631>>, <<42633, 42633>>, <<42635, 42635>>,
    <<42637, 42637>>, <<42639, 42639>>, <<42641, 42641>>, <<42643, 42643>>,
    <<42645, 42645>>, <<42647, 42647>>, <<42649, 42649>>, <<42651, 42653>>,
    <<42787, 42787>>, <<42789, 42789>>, <<42791, 42791>>, <<42793, 42793>>,
    <<42795, 42795>>, <<42797, 42797>>, <<42799, 42801>>, <<42803, 42803>>,
    <<42805, 42805>>, <<42807, 42807>>, <<42809, 42809>>, <<42811, 42811>>,
    <<42813, 42813>>, <<42815, 42815>>, <<42817, 42817>>, <<42819, 42819>>,
    <<42821, 42821>>, <<42823, 42823>>, <<42825, 42825>>, <<42827, 42827>>,
    <<42829, 42829>>, <<42831, 42831>>, <<42833, 42833>>, <<42835, 42835>>,
    <<42837, 42837>>, <<42839, 42839>>, <<42841, 42841>>, <<42843, 42843>>,
    <<42845, 42845>>, <<42847, 42847>>, <<42849, 42849>>, <<42851, 42851>>,
    <<42853, 42853>>, <<42855, 42855>>, <<42857, 42857>>, <<42859, 42859>>,
    <<42861, 42861>>, <<42863, 42872>>, <<42874, 42874>>, <<42876, 42876>>,
    <<42879, 42879>>, <<42881, 42881>>, <<42883, 42883>>, <<42885, 42885>>,
    <<42887, 42887>>, <<42892, 42892>>, <<42894, 42894>>, <<42897, 42897>>,
    <<42899, 42901>>, <<42903, 42903>>, <<42905, 42905>>, <<42907, 42907>>,
    <<42909, 42909>>, <<42911, 42911>>, <<42913, 42913>>, <<42915, 42915>>,
    <<42917, 42917>>, <<42919, 42919>>, <<42921, 42921>>, <<42927, 42927>>,
    <<42933, 42933>>, <<42935, 42935>>, <<42937, 42937>>, <<42939, 42939>>,
    <<42941, 42941>>, <<42943, 42943>>, <<42945, 42945>>, <<42947, 42947>>,
    <<42952, 42952>>, <<42954, 42954>>, <<42961, 42961>>, <<42963, 42963>>,
    <<42965, 42965>>, <<42967, 42967>>, <<42969, 42969>>, <<42998, 42998>>,
    <<43000, 43002>>, <<43824, 43866>>, <<43868, 43880>>, <<43888, 43967>>,
    <<64256, 64262>>, <<64275, 64279>>, <<65345, 65370>>, <<66600, 66639>>,
    <<66776, 66811>>, <<66967, 66977>>, <<66979, 66993>>, <<66995, 67001>>,
    <<67003, 67004>>, <<67456, 67456>>, <<67459, 67461>>, <<67463, 67504>>,
    <<67506, 67514>>, <<68800, 68850>>, <<71872, 71903>>, <<93792, 93823>>,
    <<119834, 119859>>, <<119886, 119892>>, <<119894, 119911>>,
    <<119938, 119963>>, <<119990, 119993>>, <<119995, 119995>>,
    <<119997, 120003>>, <<120005, 120015>>, <<120042, 120067>>,
    <<120094, 120119>>, <<120146, 120171>>, <<120198, 120223>>,
    <<120250, 120275>>, <<120302, 120327>>, <<120354, 120379>>,
    <<120406, 120431>>, <<120458, 120485>>, <<120514, 120538>>,
    <<120540, 120545>>, <<120572, 120596>>, <<120598, 120603>>,
    <<120630, 120654>>, <<120656, 120661>>, <<120688, 120712>>,
    <<120714, 120719>>, <<120746, 120770>>, <<120772, 120777>>,
    <<120779, 120779>>, <<122624, 122633>>, <<122635, 122654>>,
    <<125218, 125251>>
}

Uppercase == {
    <<65, 90>>, <<192, 214>>, <<216, 222>>, <<256, 256>>, <<258, 258>>,
    <<260, 260>>, <<262, 262>>, <<264, 264>>, <<266, 266>>, <<268, 268>>,
    <<270, 270>>, <<272, 272>>, <<274, 274>>, <<276, 276>>, <<278, 278>>,
    <<280, 280>>, <<282, 282>>, <<284, 284>>, <<286, 286>>, <<288, 288>>,
    <<290, 290>>, <<292, 292>>, <<294, 294>>, <<296, 296>>, <<298, 298>>,
    <<300, 300>>, <<302, 302>>, <<304, 304>>, <<306, 306>>, <<308, 308>>,
    <<310, 310>>, <<313, 313>>, <<315, 315>>, <<317, 317>>, <<319, 319>>,
    <<321, 321>>, <<323, 323>>, <<325, 325>>, <<327, 327>>, <<330, 330>>,
    <<332, 332>>, <<334, 334>>, <<336, 336>>, <<338, 338>>, <<340, 340>>,
    <<342, 342>>, <<344, 344>>, <<346, 346>>, <<348, 348>>, <<350, 350>>,
    <<352, 352>>, <<354, 354>>, <<356, 356>>, <<358, 358>>, <<360, 360>>,
    <<362, 362>>, <<364, 364>>, <<366, 366>>, <<368, 368>>, <<370, 370>>,
    <<372, 372>>, <<374, 374>>, <<376, 377>>, <<379, 379>>, <<381, 381>>,
    <<385, 386>>, <<388, 388>>, <<390, 391>>, <<393, 395>>, <<398, 401>>,
    <<403, 404>>, <<406, 408>>, <<412, 413>>, <<415, 416>>, <<418, 418>>,
    <<420, 420>>, <<422, 423>>, <<425, 425>>, <<428, 428>>, <<430, 431>>,
    <<433, 435>>, <<437, 437>>, <<439, 440>>, <<444, 444>>, <<452, 452>>,
    <<455, 455>>, <<458, 458>>, <<461, 461>>, <<463, 463>>, <<465, 465>>,
    <<467, 467>>, <<469, 469>>, <<471, 471>>, <<473, 473>>, <<475, 475>>,
    <<478, 478>>, <<480, 480>>, <<482, 482>>, <<484, 484>>, <<486, 486>>,
    <<488, 488>>, <<490, 490>>, <<492, 492>>, <<494, 494>>, <<497, 497>>,
    <<500, 500>>, <<502, 504>>, <<506, 506>>, <<508, 508>>, <<510, 510>>,
    <<512, 512>>, <<514, 514>>, <<516, 516>>, <<518, 518>>, <<520, 520>>,
    <<522, 522>>, <<524, 524>>, <<526, 526>>, <<528, 528>>, <<530, 530>>,
    <<532, 532>>, <<534, 534>>, <<536, 536>>, <<538, 538>>, <<540, 540>>,
    <<542, 542>>, <<544, 544>>, <<546, 546>>, <<548, 548>>, <<550, 550>>,
    <<552, 552>>, <<554, 554>>, <<556, 556>>, <<558, 558>>, <<560, 560>>,
    <<562, 562>>, <<570, 571>>, <<573, 574>>, <<577, 577>>, <<579, 582>>,
    <<584, 584>>, <<586, 586>>, <<588, 588>>, <<590, 590>>, <<880, 880>>,
    <<882, 882>>, <<886, 886>>, <<895, 895>>, <<902, 902>>, <<904, 906>>,
    <<908, 908>>, <<910, 911>>, <<913, 929>>, <<931, 939>>, <<975, 975>>,
    <<978, 980>>, <<984, 984>>, <<986, 986>>, <<988, 988>>, <<990, 990>>,
    <<992, 992>>, <<994, 994>>, <<996, 996>>, <<998, 998>>, <<1000, 1000>>,
    <<1002, 1002>>, <<1004, 1004>>, <<1006, 1006>>, <<1012, 1012>>,
    <<1015, 1015>>, <<1017, 1018>>, <<1021, 1071>>, <<1120, 1120>>,
    <<1122, 1122>>, <<1124, 1124>>, <<1126, 1126>>, <<1128, 1128>>,
    <<1130, 1130>>, <<1132, 1132>>, <<1134, 1134>>, <<1136, 1136>>,
    <<1138, 1138>>, <<1140, 1140>>, <<1142, 1142>>, <<1144, 1144>>,
    <<1146, 1146>>, <<1148, 1148>>, <<1150, 1150>>, <<1152, 1152>>,
    <<1162, 1162>>, <<1164, 1164>>, <<1166, 1166>>, <<1168, 1168>>,
    <<1170, 1170>>, <<1172, 1172>>, <<1174, 1174>>, <<1176, 1176>>,
    <<1178, 1178>>, <<1180, 1180>>, <<1182, 1182>>, <<1184, 1184>>,
    <<1186, 1186>>, <<1188, 1188>>, <<1190, 1190>>, <<1192, 1192>>,
    <<1194, 1194>>, <<1196, 1196>>, <<1198, 1198>>, <<1200, 1200>>,
    <<1202, 1202>>, <<1204, 1204>>, <<1206, 1206>>, <<1208, 1208>>,
    <<1210, 1210>>, <<1212, 1212>>, <<1214, 1214>>, <<1216, 1217>>,
    <<1219, 1219>>, <<1221, 1221>>, <<1223, 1223>>, <<1225, 1225>>,
    <<1227, 1227>>, <<1229, 1229>>, <<1232, 1232>>, <<1234, 1234>>,
    <<1236, 1236>>, <<1238, 1238>>, <<1240, 1240>>, <<1242, 1242>>,
    <<1244, 1244>>, <<1246, 1246>>, <<1248, 1248>>, <<1250, 1250>>,
    <<1252, 1252>>, <<1254, 1254>>, <<1256, 1256>>, <<1258, 1258>>,
    <<1260, 1260>>, <<1262, 1262>>, <<1264, 1264>>, <<1266, 1266>>,
    <<1268, 1268>>, <<1270, 1270>>, <<1272, 1272>>, <<1274, 1274>>,
    <<1276, 1276>>, <<1278, 1278>>, <<1280, 1280>>, <<1282, 1282>>,
    <<1284, 1284>>, <<1286, 1286>>, <<1288, 1288>>, <<1290, 1290>>,
    <<1292, 1292>>, <<1294, 1294>>, <<1296, 1296>>, <<1298, 1298>>,
    <<1300, 1300>>, <<1302, 1302>>, <<1304, 1304>>, <<1306, 1306>>,
    <<1308, 1308>>, <<1310, 1310>>, <<1312, 1312>>, <<1314, 1314>>,
    <<1316, 1316>>, <<1318, 1318>>, <<1320, 1320>>, <<1322, 1322>>,
    <<1324, 1324>>, <<1326, 1326>>, <<1329, 1366>>, <<4256, 4293>>,
    <<4295, 4295>>, <<4301, 4301>>, <<5024, 5109>>, <<7312, 7354>>,
    <<7357, 7359>>, <<7680, 7680>>, <<7682, 7682>>, <<7684, 7684>>,
    <<7686, 7686>>, <<7688, 7688>>, <<7690, 7690>>, <<7692, 7692>>,
    <<7694, 7694>>, <<7696, 7696>>, <<7698, 7698>>, <<7700, 7700>>,
    <<7702, 7702>>, <<7704, 7704>>, <<7706, 7706>>, <<7708, 7708>>,
    <<7710, 7710>>, <<7712, 7712>>, <<7714, 7714>>, <<7716, 7716>>,
    <<7718, 7718>>, <<7720, 7720>>, <<7722, 7722>>, <<7724, 7724>>,
    <<7726, 7726>>, <<7728, 7728>>, <<7730, 7730>>, <<7732, 7732>>,
    <<7734, 7734>>, <<7736, 7736>>, <<7738, 7738>>, <<7740, 7740>>,
    <<7742, 7742>>, <<7744, 7744>>, <<7746, 7746>>, <<7748, 7748>>,
    <<7750, 7750>>, <<7752, 7752>>, <<7754, 7754>>, <<7756, 7756>>,
    <<7758, 7758>>, <<7760, 7760>>, <<7762, 7762>>, <<7764, 7764>>,
    <<7766, 7766>>, <<7768, 7768>>, <<7770, 7770>>, <<7772, 7772>>,
    <<7774, 7774>>, <<7776, 7776>>, <<7778, 7778>>, <<7780, 7780>>,
    <<7782, 7782>>, <<7784, 7784>>, <<7786, 7786>>, <<7788, 7788>>,
    <<7790, 7790>>, <<7792, 7792>>, <<7794, 7794>>, <<7796, 7796>>,
    <<7798, 7798>>, <<7800, 7800>>, <<7802, 7802>>, <<7804, 7804>>,
    <<7806, 7806>>, <<7808, 7808>>, <<7810, 7810>>, <<7812, 7812>>,
    <<7814, 7814>>, <<7816, 7816>>, <<7818, 7818>>, <<7820, 7820>>,
    <<7822, 7822>>, <<7824, 7824>>, <<7826, 7826>>, <<7828, 7828>>,
    <<7838, 7838>>, <<7840, 7840>>, <<7842, 7842>>, <<7844, 7844>>,
    <<7846, 7846>>, <<7848, 7848>>, <<7850, 7850>>, <<7852, 7852>>,
    <<7854, 7854>>, <<7856, 7856>>, <<7858, 7858>>, <<7860, 7860>>,
    <<7862, 7862>>, <<7864, 7864>>, <<7866, 7866>>, <<7868, 7868>>,
    <<7870, 7870>>, <<7872, 7872>>, <<7874, 7874>>, <<7876, 7876>>,
    <<7878, 7878>>, <<7880, 7880>>, <<7882, 7882>>, <<7884, 7884>>,
    <<7886, 7886>>, <<7888, 7888>>, <<7890, 7890>>, <<7892, 7892>>,
    <<7894, 7894>>, <<7896, 7896>>, <<7898, 7898>>, <<7900, 7900>>,
    <<7902, 7902>>, <<7904, 7904>>, <<7906, 7906>>, <<7908, 7908>>,
    <<7910, 7910>>, <<7912, 7912>>, <<7914, 7914>>, <<7916, 7916>>,
    <<7918, 7918>>, <<7920, 7920>>, <<7922, 7922>>, <<7924, 7924>>,
    <<7926, 7926>>, <<7928, 7928>>, <<7930, 7930>>, <<7932, 7932>>,
    <<7934, 7934>>, <<7944, 7951>>, <<7960, 7965>>, <<7976, 7983>>,
    <<7992, 7999>>, <<8008, 8013>>, <<8025, 8025>>, <<8027, 8027>>,
    <<8029, 8029>>, <<8031, 8031>>, <<8040, 8047>>, <<8120, 8123>>,
    <<8136, 8139>>, <<8152, 8155>>, <<8168, 8172>>, <<8184, 8187>>,
    <<8450, 8450>>, <<8455, 8455>>, <<8459, 8461>>, <<8464, 8466>>,
    <<8469, 8469>>, <<8473, 8477>>, <<8484, 8484>>, <<8486, 8486>>,
    <<8488, 8488>>, <<8490, 8493>>, <<8496, 8499>>, <<8510, 8511>>,
    <<8517, 8517>>, <<8544, 8559>>, <<8579, 8579>>, <<9398, 9423>>,
    <<11264, 11311>>, <<11360, 11360>>, <<11362, 11364>>, <<11367, 11367>>,
    <<11369, 11369>>, <<11371, 11371>>, <<11373, 11376>>, <<11378, 11378>>,
    <<11381, 11381>>, <<11390, 11392>>, <<11394, 11394>>, <<11396, 11396>>,
    <<11398, 11398>>, <<11400, 11400>>, <<11402, 11402>>, <<11404, 11404>>,
    <<11406, 11406>>, <<11408, 11408>>, <<11410, 11410>>, <<11412, 11412>>,
    <<11414, 11414>>, <<11416, 11416>>, <<11418, 11418>>, <<11420, 11420>>,
    <<11422, 11422>>, <<11424, 11424>>, <<11426, 11426>>, <<11428, 11428>>,
    <<11430, 11430>>, <<11432, 11432>>, <<11434, 11434>>, <<11436, 11436>>,
    <<11438, 11438>>, <<11440, 11440>>, <<11442, 11442>>, <<11444, 11444>>,
    <<11446, 11446>>, <<11448, 11448>>, <<11450, 11450>>, <<11452, 11452>>,
    <<11454, 11454>>, <<11456, 11456>>, <<11458, 11458>>, <<11460, 11460>>,
    <<11462, 11462>>, <<11464, 11464>>, <<11466, 11466>>, <<11468, 11468>>,
    <<11470, 11470>>, <<11472, 11472>>, <<11474, 11474>>, <<11476, 11476>>,
    <<11478, 11478>>, <<11480, 11480>>, <<11482, 11482>>, <<11484, 11484>>,
    <<11486, 11486>>, <<11488, 11488>>, <<11490, 11490>>, <<11499, 11499>>,
    <<11501, 11501>>, <<11506, 11506>>, <<42560, 42560>>, <<42562, 42562>>,
    <<42564, 42564>>, <<42566, 42566>>, <<42568, 42568>>, <<42570, 42570>>,
    <<42572, 42572>>, <<42574, 42574>>, <<42576, 42576>>, <<42578, 42578>>,
    <<42580, 42580>>, <<42582, 42582>>, <<42584, 42584>>, <<42586, 42586>>,
    <<42588, 42588>>, <<42590, 42590>>, <<42592, 42592>>, <<42594, 42594>>,
    <<42596, 42596>>, <<42598, 42598>>, <<42600, 42600>>, <<42602, 42602>>,
    <<42604, 42604>>, <<42624, 42624>>, <<42626, 42626>>, <<42628, 42628>>,
    <<42630, 42630>>, <<42632, 42632>>, <<42634, 42634>>, <<42636, 42636>>,
    <<42638, 42638>>, <<42640, 42640>>, <<42642, 42642>>, <<42644, 42644>>,
    <<42646, 42646>>, <<42648, 42648>>, <<42650, 42650>>, <<42786, 42786>>,
    <<42788, 42788>>, <<42790, 42790>>, <<42792, 42792>>, <<42794, 42794>>,
    <<42796, 42796>>, <<42798, 42798>>, <<42802, 42802>>, <<42804, 42804>>,
    <<42806, 42806>>, <<42808, 42808>>, <<42810, 42810>>, <<42812, 42812>>,
    <<42814, 42814>>, <<42816, 42816>>, <<42818, 42818>>, <<42820, 42820>>,
    <<42822, 42822>>, <<42824, 42824>>, <<42826, 42826>>, <<42828, 42828>>,
    <<42830, 42830>>, <<42832, 42832>>, <<42834, 42834>>, <<42836, 42836>>,
    <<42838, 42838>>, <<42840, 42840>>, <<42842, 42842>>, <<42844, 42844>>,
    <<42846, 42846>>, <<42848, 42848>>, <<42850, 42850>>, <<42852, 42852>>,
    <<42854, 42854>>, <<42856, 42856>>, <<42858, 42858>>, <<42860, 42860>>,
    <<42862, 42862>>, <<42873, 42873>>, <<42875, 42875>>, <<42877, 42878>>,
    <<42880, 42880>>, <<42882, 42882>>, <<42884, 42884>>, <<42886, 42886>>,
    <<42891, 42891>>, <<42893, 42893>>, <<42896, 42896>>, <<42898, 42898>>,
    <<42902, 42902>>, <<42904, 42904>>, <<42906, 42906>>, <<42908, 42908>>,
    <<42910, 42910>>, <<42912, 42912>>, <<42914, 42914>>, <<42916, 42916>>,
    <<42918, 42918>>, <<42920, 42920>>, <<42922, 42926>>, <<42928, 42932>>,
    <<42934, 42934>>, <<42936, 42936>>, <<42938, 42938>>, <<42940, 42940>>,
    <<42942, 42942>>, <<42944, 42944>>, <<42946, 42946>>, <<42948, 42951>>,
    <<42953, 42953>>, <<42960, 42960>>, <<42966, 42966>>, <<42968, 42968>>,
    <<42997, 42997>>, <<65313, 65338>>, <<66560, 66599>>, <<66736, 66771>>,
    <<66928, 66938>>, <<66940, 66954>>, <<66956, 66962>>, <<66964, 66965>>,
    <<68736, 68786>>, <<71840, 71871>>, <<93760, 93791>>, <<119808, 119833>>,
    <<119860, 119885>>, <<119912, 119937>>, <<119964, 119964>>,
    <<119966, 119967>>, <<119970, 119970>>, <<119973, 119974>>,
    <<119977, 119980>>, <<119982, 119989>>, <<120016, 120041>>,
    <<120068, 120069>>, <<120071, 120074>>, <<120077, 120084>>,
    <<120086, 120092>>, <<120120, 120121>>, <<120123, 120126>>,
    <<120128, 120132>>, <<120134, 120134>>, <<120138, 120144>>,
    <<120172, 120197>>, <<120224, 120249>>, <<120276, 120301>>,
    <<120328, 120353>>, <<120380, 120405>>, <<120432, 120457>>,
    <<120488, 120512>>, <<120546, 120570>>, <<120604, 120628>>,
    <<120662, 120686>>, <<120720, 120744>>, <<120778, 120778>>,
    <<125184, 125217>>, <<127280, 127305>>, <<127312, 127337>>,
    <<127344, 127369>>
}

Titlecase == {
    <<453, 453>>, <<456, 456>>, <<459, 459>>, <<498, 498>>, <<8072, 8079>>,
    <<8088, 8095>>, <<8104, 8111>>, <<8124, 8124>>, <<8140, 8140>>,
    <<8188, 8188>>
}

InRanges(cp, ranges) == \E r \in ranges : r[1] <= cp /\ cp <= r[2]

(* str.isalpha, str.islower, str.isupper: every character alphabetic and at *)
(* least one character; no uppercase or titlecase character and at least    *)
(* one lowercase one; no lowercase or titlecase character and at least one  *)
(* uppercase one.                                                           *)
isalpha(str) ==
    /\ str # <<>>
    /\ \A k \in 1..Len(str) : InRanges(str[k], Alphabetic)
islower(str) ==
    /\ \A k \in 1..Len(str) :
           ~InRanges(str[k], Uppercase) /\ ~InRanges(str[k], Titlecase)
    /\ \E k \in 1..Len(str) : InRanges(str[k], Lowercase)
isupper(str) ==
    /\ \A k \in 1..Len(str) :
           ~InRanges(str[k], Lowercase) /\ ~InRanges(str[k], Titlecase)
    /\ \E k \in 1..Len(str) : InRanges(str[k], Uppercase)

(* ord: the code point of a str of length 1, a TypeError for another str. *)
ord(str) == IF Len(str) = 1 THEN str[1] ELSE Raise("TypeError")

Tuple(t, els) == [tag |-> "tuple", t |-> t, els |-> els]

RECURSIVE chew(_)
chew(term) ==
    IF term = <<>> THEN Raise("IndexError")   \* term[0] of the empty str
    ELSE LET init == <<Head(term)>>
             els == Tail(term)
         IN  IF init = <<33>> THEN Tuple(Cont, els)
             ELSE IF isalpha(init) /\ islower(init) THEN Tuple(Var(ord(init)), els)
             ELSE IF isalpha(init) /\ isupper(init) THEN Tuple(MetaVar(ord(init)), els)
             ELSE LET a == chew(els)
                  IN  IF IsRaise(a) THEN a
                      ELSE LET b == chew(a.els)
                           IN  IF IsRaise(b) THEN b
                               ELSE Tuple(Imply(a.t, b.t), b.els)

parse(term) ==
    LET r == chew(term)
    IN  IF IsRaise(r) THEN r
        ELSE IF r.els # <<>> THEN Raise("ValueError")
        ELSE r.t

axioms == <<
    parse(<<62, 65, 62, 66, 65>>),                                  \* ">A>BA"
    parse(<<62, 62, 65, 62, 66, 67, 62, 62, 65, 66, 62, 65, 67>>),  \* ">>A>BC>>AB>AC"
    parse(<<62, 62, 62, 65, 66, 65, 65>>),                          \* ">>>ABAA"
    parse(<<62, 33, 65>>)                                           \* ">!A"
>>

(* seq[k] of a Python tuple or list: 0-based, a negative k counts from the  *)
(* end, anything else is an IndexError.                                     *)
getitem(seq, k) ==
    IF 0 <= k /\ k < Len(seq) THEN seq[k + 1]
    ELSE IF k < 0 /\ -k <= Len(seq) THEN seq[Len(seq) + k + 1]
    ELSE Raise("IndexError")

-----------------------------------------------------------------------------
(* Infer, AxiomI, ModI, Proof *)

Infer == [tag |-> "Infer"]
AxiomI(index, terms) == [tag |-> "AxiomI", index |-> index, terms |-> terms]
ModI(implication, premise) ==
    [tag |-> "ModI", implication |-> implication, premise |-> premise]

(* axiom_instance with terms[1] and terms[0] taken in the wrong order. *)
axiom_instance_swapped(inf) ==
    LET ress0 == getitem(axioms, inf.index)
    IN  IF IsRaise(ress0) THEN ress0
        ELSE LET ress1 == meta_replace(ress0, ord(<<65>>), inf.terms[2])
             IN  IF IsRaise(ress1) THEN ress1
                 ELSE LET ress2 == meta_replace(ress1, ord(<<66>>), inf.terms[1])
                      IN  IF IsRaise(ress2) THEN ress2
                          ELSE meta_replace(ress2, ord(<<67>>), inf.terms[3])

(* axiom_instance without the replacement of C. *)
axiom_instance_no_C(inf) ==
    LET ress0 == getitem(axioms, inf.index)
    IN  IF IsRaise(ress0) THEN ress0
        ELSE LET ress1 == meta_replace(ress0, ord(<<65>>), inf.terms[1])
             IN  IF IsRaise(ress1) THEN ress1
                 ELSE meta_replace(ress1, ord(<<66>>), inf.terms[2])

(* Lines 121-124 of Proof.statements: the term an AxiomI appends, or the    *)
(* exception the four lines raise.                                          *)
axiom_instance(inf) ==
    LET ress0 == getitem(axioms, inf.index)
    IN  IF IsRaise(ress0) THEN ress0
        ELSE LET ress1 == meta_replace(ress0, ord(<<65>>), inf.terms[1])
             IN  IF IsRaise(ress1) THEN ress1
                 ELSE LET ress2 == meta_replace(ress1, ord(<<66>>), inf.terms[2])
                      IN  IF IsRaise(ress2) THEN ress2
                          ELSE meta_replace(ress2, ord(<<67>>), inf.terms[3])

(* modus_ponens without the comparison of a.premise and b. *)
modus_ponens_unchecked(trace, inf) ==
    IF inf.premise >= Len(trace) \/ inf.implication >= Len(trace)
    THEN None
    ELSE LET a == getitem(trace, inf.implication)
             b == getitem(trace, inf.premise)
         IN  IF IsRaise(a) THEN a
             ELSE IF IsRaise(b) THEN b
             ELSE IF ~isinstance(a, {"Imply"}) THEN None
             ELSE a.conclusion

(* Lines 127-135 of Proof.statements: None when the step returns None, the  *)
(* exception when an index raises, else the term the step appends.          *)
modus_ponens(trace, inf) ==
    IF inf.premise >= Len(trace) \/ inf.implication >= Len(trace)
    THEN None
    ELSE LET a == getitem(trace, inf.implication)
             b == getitem(trace, inf.premise)
         IN  IF IsRaise(a) THEN a
             ELSE IF IsRaise(b) THEN b
             ELSE IF ~isinstance(a, {"Imply"}) THEN None
             ELSE IF a.premise # b THEN None
             ELSE a.conclusion

(* verify comparing the goal with the last line only. *)
verify_last(r, g) ==
    IF r = None \/ r = List(<<>>) THEN False
    ELSE IF r.items[Len(r.items)] = g THEN True
    ELSE False

(* verify without the membership test of the goal. *)
verify_any(r, g) ==
    IF r = None \/ r = List(<<>>) THEN False
    ELSE True

(* Lines 143-145 of Proof.verify, given what statements() returned.         *)
verify(r, g) ==
    IF r = None \/ r = List(<<>>) THEN False
    ELSE IF \E k \in 1..Len(r.items) : r.items[k] = g THEN True
    ELSE False

-----------------------------------------------------------------------------
(* The proofs that are replayed *)

MaxSteps == 3

Va == Var(ord(<<97>>))
Vb == Var(ord(<<98>>))
Vc == Var(ord(<<99>>))
K_ab == Imply(Va, Imply(Vb, Va))

TermTriples == {<<Va, Vb, Vc>>, <<K_ab, Vb, Vc>>}
AxiomIndexes == -2..4
LineIndexes == -1..1

Steps ==
    {AxiomI(k, <<Va, Vb, Vc>>) : k \in AxiomIndexes}
    \cup {AxiomI(0, t) : t \in TermTriples}
    \cup {ModI(m, n) : m \in LineIndexes, n \in LineIndexes}
    \cup {Infer}

(* Every proof of at most MaxSteps steps over Steps, and every proof of one *)
(* AxiomI over a wider set of metavariable-free terms.                      *)
WideTerms == {Va, Vb, ContInst, K_ab}
OneAxiomProofs ==
    {<<AxiomI(k, <<X, Y, Z>>)>> :
        k \in AxiomIndexes, X \in WideTerms, Y \in WideTerms, Z \in WideTerms}

Proofs == UNION {[1..n -> Steps] : n \in 0..MaxSteps} \cup OneAxiomProofs

(* The goals a proof is tried with: three fixed ones and, for a proof of    *)
(* one AxiomI, the term X -> (Y -> X) of its terms.                         *)
Goals(infs) ==
    {K_ab, Imply(Vb, K_ab), Va}
    \cup IF infs \in OneAxiomProofs
         THEN {Imply(infs[1].terms[1], Imply(infs[1].terms[2], infs[1].terms[1]))}
         ELSE {}

NoCall == [tag |-> "no call"]

-----------------------------------------------------------------------------
(* Proof(goal, inferences).verify() *)

Init ==
    /\ inferences \in Proofs
    /\ goal \in Goals(inferences)
    /\ res = <<>>
    /\ i = 0
    /\ pc = "statements"
    /\ ret = NoValue
    /\ result = NoValue
    /\ exc = NoValue
    /\ proofs = <<>>
    /\ runs = <<>>
    /\ mr = NoCall

(* AxiomIStep going on to the next step when the instantiation raises. *)
AxiomIStep_skipping ==
    /\ pc = "statements"
    /\ i < Len(inferences)
    /\ isinstance(inferences[i + 1], {"AxiomI"})
    /\ LET ress == axiom_instance(inferences[i + 1])
       IN  IF IsRaise(ress)
           THEN /\ i' = i + 1
                /\ UNCHANGED <<res, pc, exc>>
           ELSE /\ res' = Append(res, ress)
                /\ i' = i + 1
                /\ UNCHANGED <<pc, exc>>
    /\ UNCHANGED <<goal, inferences, ret, result, mr, proofs, runs>>

(* One iteration of the for loop on an AxiomI. *)
AxiomIStep ==
    /\ pc = "statements"
    /\ i < Len(inferences)
    /\ isinstance(inferences[i + 1], {"AxiomI"})
    /\ LET ress == axiom_instance(inferences[i + 1])
       IN  IF IsRaise(ress)
           THEN /\ pc' = "raised"
                /\ exc' = ress
                /\ UNCHANGED <<res, i>>
           ELSE /\ res' = Append(res, ress)
                /\ i' = i + 1
                /\ UNCHANGED <<pc, exc>>
    /\ UNCHANGED <<goal, inferences, ret, result, mr, proofs, runs>>

(* One iteration of the for loop on a ModI. *)
ModIStep ==
    /\ pc = "statements"
    /\ i < Len(inferences)
    /\ isinstance(inferences[i + 1], {"ModI"})
    /\ LET q == modus_ponens(res, inferences[i + 1])
       IN  IF IsRaise(q)
           THEN /\ pc' = "raised"
                /\ exc' = q
                /\ UNCHANGED <<res, i, ret>>
           ELSE IF q = None
           THEN /\ pc' = "verify"
                /\ ret' = None
                /\ UNCHANGED <<res, i, exc>>
           ELSE /\ res' = Append(res, q)
                /\ i' = i + 1
                /\ UNCHANGED <<pc, ret, exc>>
    /\ UNCHANGED <<goal, inferences, result, mr, proofs, runs>>

(* One iteration of the for loop on a step that is neither an AxiomI nor a  *)
(* ModI: the else branch raises.                                            *)
OtherStep ==
    /\ pc = "statements"
    /\ i < Len(inferences)
    /\ ~isinstance(inferences[i + 1], {"AxiomI"})
    /\ ~isinstance(inferences[i + 1], {"ModI"})
    /\ pc' = "raised"
    /\ exc' = Raise("ValueError")
    /\ UNCHANGED <<goal, inferences, res, i, ret, result, mr, proofs, runs>>

(* The for loop is exhausted: return res. *)
StatementsReturn ==
    /\ pc = "statements"
    /\ i = Len(inferences)
    /\ pc' = "verify"
    /\ ret' = List(res)
    /\ UNCHANGED <<goal, inferences, res, i, result, exc, mr, proofs, runs>>

(* verify() after its call of statements(). *)
VerifyReturn ==
    /\ pc = "verify"
    /\ pc' = "done"
    /\ result' = verify(ret, goal)
    /\ UNCHANGED <<goal, inferences, res, i, ret, exc, mr, proofs, runs>>

Next == AxiomIStep \/ ModIStep \/ OtherStep \/ StatementsReturn \/ VerifyReturn

Spec == Init /\ [][Next]_vars

-----------------------------------------------------------------------------
(* Term.meta_replace called on its own *)

MaxImplies == 2

Leaves == {Va, ContInst, MetaVar(ord(<<65>>)), MetaVar(ord(<<66>>))}

(* The terms with exactly n Imply nodes over Leaves. *)
RECURSIVE TermsWith(_)
TermsWith(n) ==
    IF n = 0 THEN Leaves
    ELSE UNION {{Imply(p, q) : p \in TermsWith(k), q \in TermsWith(n - 1 - k)} :
                k \in 0..(n - 1)}

Terms == UNION {TermsWith(n) : n \in 0..MaxImplies}
MetaIds == {ord(<<65>>), ord(<<66>>), ord(<<67>>)}
Replacements == {Vb, ContInst, Imply(MetaVar(ord(<<65>>)), Vb)}

InitReplace ==
    /\ mr \in [tag : {"call"}, self : Terms, value : MetaIds,
               term : Replacements, ret : {NoValue}]
    /\ goal = NoValue
    /\ inferences = <<>>
    /\ res = <<>>
    /\ i = 0
    /\ pc = "idle"
    /\ ret = NoValue
    /\ result = NoValue
    /\ exc = NoValue
    /\ proofs = <<>>
    /\ runs = <<>>

MetaReplaceCall ==
    /\ mr.tag = "call"
    /\ mr.ret = NoValue
    /\ mr' = [mr EXCEPT !.ret = meta_replace(mr.self, mr.value, mr.term)]
    /\ UNCHANGED <<goal, inferences, res, i, pc, ret, result, exc, proofs, runs>>

NextReplace == MetaReplaceCall

SpecReplace == InitReplace /\ [][NextReplace]_vars

-----------------------------------------------------------------------------
(* What the specification says of a replay, read off a state.               *)
(*                                                                          *)
(* Steps 1..i were accepted and res[j] is the line step j appended, so the  *)
(* trace step j was examined against is the first j - 1 lines of res. Step  *)
(* i + 1 is the step the loop stopped at when statements() returned None    *)
(* from inside the loop or an exception left it.                            *)

Stopped ==
    \/ pc = "raised"
    \/ pc \in {"verify", "done"} /\ ret = None

Examined(j) == j <= i \/ (j = i + 1 /\ Stopped)
AcceptedAt(j) == j <= i
RejectedAt(j) ==
    /\ i = j - 1
    /\ pc \in {"verify", "done"}
    /\ ret = None
    /\ pc = "done" => result = False

TraceBefore(j) == SubSeq(res, 1, j - 1)
Present(trace, k) == k \in 0..(Len(trace) - 1)

(* The failure the specification assigns to a step examined against trace, *)
(* "ok" when the step is valid.                                             *)
StepFault(trace, inf) ==
    IF inf.tag = "AxiomI"
    THEN IF inf.index \in 0..3 THEN "ok" ELSE "UnknownAxiom"
    ELSE IF inf.tag # "ModI" THEN "NotAStep"
    ELSE IF ~Present(trace, inf.implication) \/ ~Present(trace, inf.premise)
    THEN "DanglingReference"
    ELSE IF trace[inf.implication + 1].tag # "Imply"
    THEN "NotAnImplication"
    ELSE IF trace[inf.implication + 1].premise # trace[inf.premise + 1]
    THEN "PremiseMismatch"
    ELSE "ok"

Fault(j) == StepFault(TraceBefore(j), inferences[j])

(* The instance of schema k with A := X, B := Y, C := Z. *)
Instance(k, X, Y, Z) ==
    CASE k = 0 -> Imply(X, Imply(Y, X))
      [] k = 1 -> Imply(Imply(X, Imply(Y, Z)), Imply(Imply(X, Y), Imply(X, Z)))
      [] k = 2 -> Imply(Imply(Imply(X, Y), X), X)
      [] k = 3 -> Imply(ContInst, X)

InList(g, items) == \E k \in 1..Len(items) : items[k] = g

-----------------------------------------------------------------------------
(* C1: when statements() returns a trace T, verify() returns True if and    *)
(* only if the goal equals some entry of T, at any position; it returns     *)
(* False when the goal equals no entry, the empty trace included.           *)
C1_VerifyIffGoalInTrace ==
    (pc = "done" /\ ret.tag = "list") =>
        /\ result \in {True, False}
        /\ result = True <=> InList(goal, ret.items)
        /\ ret.items = <<>> => result = False

(* A finished run that returned True for a goal that is line 0 of a longer  *)
(* trace and is not its last line.                                          *)
C1_Witness ==
    /\ pc = "done"
    /\ ret.tag = "list"
    /\ Len(ret.items) >= 2
    /\ ret.items[1] = goal
    /\ ret.items[Len(ret.items)] # goal
    /\ result = True

(* C2: an examined AxiomI(k, (X, Y, Z)) with k in 0..3 has appended exactly *)
(* the instance of schema k with A := X, B := Y, C := Z.                    *)
C2_AxiomInstanceAppended ==
    \A j \in 1..Len(inferences) :
        (/\ Examined(j)
         /\ inferences[j].tag = "AxiomI"
         /\ inferences[j].index \in 0..3) =>
            /\ AcceptedAt(j)
            /\ res[j] = Instance(inferences[j].index, inferences[j].terms[1],
                                 inferences[j].terms[2], inferences[j].terms[3])

(* C3: an examined ModI whose two lines are present in the trace is         *)
(* rejected (statements() gives None, verify() False) when the cited        *)
(* implication is no Imply or its premise differs from the cited premise    *)
(* line, and is accepted only when neither holds.                           *)
C3_ModusPonensChecks ==
    \A j \in 1..Len(inferences) :
        (/\ Examined(j)
         /\ inferences[j].tag = "ModI"
         /\ Present(TraceBefore(j), inferences[j].implication)
         /\ Present(TraceBefore(j), inferences[j].premise)) =>
            /\ Fault(j) \in {"NotAnImplication", "PremiseMismatch"} => RejectedAt(j)
            /\ AcceptedAt(j) => Fault(j) = "ok"

(* A finished run rejected at a ModI that cites two present lines, the      *)
(* first an Imply whose premise is not the second.                          *)
C3_Witness ==
    /\ pc = "done"
    /\ result = False
    /\ i + 1 <= Len(inferences)
    /\ inferences[i + 1].tag = "ModI"
    /\ Fault(i + 1) = "PremiseMismatch"
    /\ RejectedAt(i + 1)

(* C4: an examined ModI with an index that is not the index of a line       *)
(* already in the trace is rejected at that step, and verify() returns      *)
(* False.                                                                   *)
C4_DanglingRejected ==
    \A j \in 1..Len(inferences) :
        (/\ Examined(j)
         /\ inferences[j].tag = "ModI"
         /\ Fault(j) = "DanglingReference") => RejectedAt(j)

(* C5: an examined AxiomI with an index outside 0..3 is rejected at that    *)
(* step: it is not accepted and nothing is raised.                          *)
C5_UnknownAxiomRejected ==
    \A j \in 1..Len(inferences) :
        (/\ Examined(j)
         /\ inferences[j].tag = "AxiomI"
         /\ Fault(j) = "UnknownAxiom") => RejectedAt(j)

(* C6: no exception leaves verify(). *)
C6_NeverRaises == pc # "raised" /\ exc = NoValue

(* C7: when the first invalid step has been examined, the loop stopped at   *)
(* it, statements() returned None and verify() returns False, whatever the  *)
(* goal and the later steps are.                                            *)
C7_FailFast ==
    \A j \in 1..Len(inferences) :
        (/\ Examined(j)
         /\ Fault(j) \notin {"ok", "NotAStep"}
         /\ \A k \in 1..(j - 1) : Fault(k) = "ok") => RejectedAt(j)

(* C8: the result of a finished verification is Derived(trace) or          *)
(* Failed(reason, atStep), naming the failure and the failing step.         *)
Derived(trace) == [tag |-> "Derived", trace |-> trace]
Failed(reason, atStep) == [tag |-> "Failed", reason |-> reason, atStep |-> atStep]
VerificationResult ==
    IF ret = None THEN Failed(Fault(i + 1), i)
    ELSE IF InList(goal, ret.items) THEN Derived(ret.items)
    ELSE Failed("GoalNotDerived", Len(inferences))

C8_ResultIdentifiesFailure == pc = "done" => result = VerificationResult

(* C8 as amended: verify() returns a bare bool, and the same False for      *)
(* every failure it reports, whichever step check failed at whichever step  *)
(* and also when the goal was not derived.                                  *)
C8_FailureIsBareFalse ==
    pc = "done" =>
        /\ result \in {True, False}
        /\ (ret = None \/ ~InList(goal, ret.items)) => result = False

(* A finished run that failed with a dangling reference at a step after     *)
(* step 0 and returned False.                                               *)
C8_Witness ==
    /\ pc = "done"
    /\ ret = None
    /\ i >= 1
    /\ Fault(i + 1) = "DanglingReference"
    /\ result = False

(* C9: a proof whose only step is AxiomI(0, (X, Y, Z)) has the trace        *)
(* [X -> (Y -> X)], and verify() returns True for the goal X -> (Y -> X).   *)
C9_AxiomZeroAlone ==
    (/\ Len(inferences) = 1
     /\ inferences[1].tag = "AxiomI"
     /\ inferences[1].index = 0
     /\ pc \in {"verify", "done", "raised"}) =>
        LET K == Imply(inferences[1].terms[1],
                       Imply(inferences[1].terms[2], inferences[1].terms[1]))
        IN  /\ pc # "raised"
            /\ ret = List(<<K>>)
            /\ (pc = "done" /\ goal = K) => result = True

(* A finished one-step proof by axiom 0 whose goal is the instance. *)
C9_Witness ==
    /\ pc = "done"
    /\ Len(inferences) = 1
    /\ inferences[1].tag = "AxiomI"
    /\ inferences[1].index = 0
    /\ goal = Imply(inferences[1].terms[1],
                    Imply(inferences[1].terms[2], inferences[1].terms[1]))
    /\ result = True

(* Positions of a term, as paths of "premise" / "conclusion" from the root, *)
(* and the subterm at a position (NoValue when the path leaves the term).   *)
RECURSIVE Positions(_)
Positions(t) ==
    IF t.tag = "Imply"
    THEN {<<>>} \cup {<<"premise">> \o q : q \in Positions(t.premise)}
               \cup {<<"conclusion">> \o q : q \in Positions(t.conclusion)}
    ELSE {<<>>}

RECURSIVE SubtermAt(_, _)
SubtermAt(t, path) ==
    IF path = <<>> THEN t
    ELSE IF t.tag # "Imply" THEN NoValue
    ELSE SubtermAt(IF Head(path) = "premise" THEN t.premise ELSE t.conclusion,
                   Tail(path))

(* C10: t.meta_replace(id, r) is t when MetaVar(id) does not occur in t;    *)
(* in general it has r at every position where t has MetaVar(id), an Imply  *)
(* where t has an Imply, and t's own leaf at every other leaf of t.         *)
C10_MetaReplaceSubstitutes ==
    (mr.tag = "call" /\ mr.ret # NoValue) =>
        /\ (\A q \in Positions(mr.self) : SubtermAt(mr.self, q) # MetaVar(mr.value))
               => mr.ret = mr.self
        /\ \A q \in Positions(mr.self) :
               LET s == SubtermAt(mr.self, q)
                   o == SubtermAt(mr.ret, q)
               IN  IF s = MetaVar(mr.value) THEN o = mr.term
                   ELSE IF s.tag = "Imply" THEN o.tag = "Imply"
                   ELSE o = s

(* A returned call on a term that holds the replaced metavariable twice     *)
(* and another metavariable.                                                *)
C10_Witness ==
    /\ mr.tag = "call"
    /\ mr.ret # NoValue
    /\ mr.ret # mr.self
    /\ Cardinality({q \in Positions(mr.self) :
                      SubtermAt(mr.self, q) = MetaVar(mr.value)}) >= 2
    /\ \E q \in Positions(mr.self) :
           /\ SubtermAt(mr.self, q).tag = "MetaVar"
           /\ SubtermAt(mr.self, q) # MetaVar(mr.value)

-----------------------------------------------------------------------------
(* The ModI branch of Proof.statements against any trace *)

MaxLines == 2

(* No verify() in progress: the state of the variables of a replay while a  *)
(* function is called on its own.                                           *)
NoVerify ==
    /\ goal = NoValue
    /\ inferences = <<>>
    /\ res = <<>>
    /\ i = 0
    /\ pc = "idle"
    /\ ret = NoValue
    /\ result = NoValue
    /\ exc = NoValue
    /\ proofs = <<>>
    /\ runs = <<>>

LineTerms == TermsWith(0) \cup TermsWith(1)
Traces == UNION {[1..n -> LineTerms] : n \in 0..MaxLines}
CitedIndexes == (-MaxLines)..MaxLines

InitModus ==
    /\ mr \in [tag : {"modus"}, trace : Traces,
               inf : {ModI(m, n) : m \in CitedIndexes, n \in CitedIndexes},
               ret : {NoValue}]
    /\ NoVerify

ModusPonensCall ==
    /\ mr.tag = "modus"
    /\ mr.ret = NoValue
    /\ mr' = [mr EXCEPT !.ret = modus_ponens(mr.trace, mr.inf)]
    /\ UNCHANGED <<goal, inferences, res, i, pc, ret, result, exc, proofs, runs>>

NextModus == ModusPonensCall

SpecModus == InitModus /\ [][NextModus]_vars

(* C11: when ModI(implication = i, premise = j) is accepted against a       *)
(* trace, the swapped ModI(implication = j, premise = i) is rejected        *)
(* against the same trace, and for two indices of lines the failure is      *)
(* NotAnImplication or PremiseMismatch; this covers i = j.                  *)
Swapped(inf) == ModI(inf.premise, inf.implication)
Accepts(out) == out # None /\ ~IsRaise(out)

C11_SwappedStepRejected ==
    (mr.tag = "modus" /\ mr.ret # NoValue /\ Accepts(mr.ret)) =>
        /\ modus_ponens(mr.trace, Swapped(mr.inf)) = None
        /\ (Present(mr.trace, mr.inf.implication) /\ Present(mr.trace, mr.inf.premise))
               => StepFault(mr.trace, Swapped(mr.inf))
                      \in {"NotAnImplication", "PremiseMismatch"}

(* An accepted call whose swapped step fails because the cited premise line *)
(* is no Imply.                                                             *)
C11_Witness ==
    /\ mr.tag = "modus"
    /\ mr.ret # NoValue
    /\ Accepts(mr.ret)
    /\ Present(mr.trace, mr.inf.implication)
    /\ Present(mr.trace, mr.inf.premise)
    /\ StepFault(mr.trace, Swapped(mr.inf)) = "NotAnImplication"
    /\ modus_ponens(mr.trace, Swapped(mr.inf)) = None

-----------------------------------------------------------------------------
(* Several calls of verify(), interleaved, on Proof objects they may share *)

ProofIds == {"p", "q"}
Callers == {"c1", "c2"}

CallInferences == {
    <<>>,
    <<AxiomI(0, <<Va, Vb, Vc>>), AxiomI(1, <<Va, Vb, Vc>>)>>,
    <<AxiomI(0, <<Va, Vb, Vc>>), AxiomI(0, <<K_ab, Vb, Vc>>), ModI(1, 0)>>,
    <<AxiomI(0, <<Va, Vb, Vc>>), AxiomI(0, <<K_ab, Vb, Vc>>), ModI(0, 1)>>,
    <<AxiomI(2, <<Va, Vb, Vc>>), AxiomI(3, <<Va, Vb, Vc>>)>>,
    <<AxiomI(0, <<Va, Vb, Vc>>), ModI(0, 0), AxiomI(4, <<Va, Vb, Vc>>)>>,
    <<ModI(-1, -1)>>,
    <<AxiomI(0, <<Va, Vb, Vc>>), Infer, ModI(0, 0)>>
}
CallProofs == {[goal |-> g, inferences |-> s] : g \in {K_ab, Va}, s \in CallInferences}

(* The frame of a call of verify() on the Proof object pid, at its entry. *)
Run(pid) ==
    [proof |-> pid, res |-> <<>>, i |-> 0, pc |-> "statements",
     ret |-> NoValue, result |-> NoValue, exc |-> NoValue]

InitCalls ==
    /\ proofs \in [ProofIds -> CallProofs]
    /\ runs \in [Callers -> {Run(pid) : pid \in ProofIds}]
    /\ goal = NoValue
    /\ inferences = <<>>
    /\ res = <<>>
    /\ i = 0
    /\ pc = "idle"
    /\ ret = NoValue
    /\ result = NoValue
    /\ exc = NoValue
    /\ mr = NoCall

(* CallAxiomIStep taking the step off the Proof's list as it processes it. *)
CallAxiomIStep_popping(c) ==
    LET r == runs[c]
        self == proofs[r.proof]
    IN  /\ r.pc = "statements"
        /\ r.i < Len(self.inferences)
        /\ isinstance(self.inferences[r.i + 1], {"AxiomI"})
        /\ LET ress == axiom_instance(self.inferences[r.i + 1])
           IN  runs' = [runs EXCEPT ![c] =
                   IF IsRaise(ress)
                   THEN [r EXCEPT !.pc = "raised", !.exc = ress]
                   ELSE [r EXCEPT !.res = Append(r.res, ress)]]
        /\ proofs' = [proofs EXCEPT ![r.proof].inferences =
                          SubSeq(@, 1, r.i) \o SubSeq(@, r.i + 2, Len(@))]
        /\ UNCHANGED <<goal, inferences, res, i, pc, ret, result, exc, mr>>

(* CallAxiomIStep with one list res shared by all the calls. *)
CallAxiomIStep_shared(c) ==
    LET r == runs[c]
        self == proofs[r.proof]
    IN  /\ r.pc = "statements"
        /\ r.i < Len(self.inferences)
        /\ isinstance(self.inferences[r.i + 1], {"AxiomI"})
        /\ LET ress == axiom_instance(self.inferences[r.i + 1])
           IN  runs' = [d \in Callers |->
                   IF IsRaise(ress)
                   THEN IF d = c THEN [r EXCEPT !.pc = "raised", !.exc = ress]
                        ELSE runs[d]
                   ELSE IF d = c
                        THEN [r EXCEPT !.res = Append(r.res, ress), !.i = r.i + 1]
                        ELSE [runs[d] EXCEPT !.res = Append(runs[d].res, ress)]]
        /\ UNCHANGED <<proofs, goal, inferences, res, i, pc, ret, result, exc, mr>>

(* One iteration of the for loop of call c on an AxiomI. *)
CallAxiomIStep(c) ==
    LET r == runs[c]
        self == proofs[r.proof]
    IN  /\ r.pc = "statements"
        /\ r.i < Len(self.inferences)
        /\ isinstance(self.inferences[r.i + 1], {"AxiomI"})
        /\ LET ress == axiom_instance(self.inferences[r.i + 1])
           IN  runs' = [runs EXCEPT ![c] =
                   IF IsRaise(ress)
                   THEN [r EXCEPT !.pc = "raised", !.exc = ress]
                   ELSE [r EXCEPT !.res = Append(r.res, ress), !.i = r.i + 1]]
        /\ UNCHANGED <<proofs, goal, inferences, res, i, pc, ret, result, exc, mr>>

(* One iteration of the for loop of call c on a ModI. *)
CallModIStep(c) ==
    LET r == runs[c]
        self == proofs[r.proof]
    IN  /\ r.pc = "statements"
        /\ r.i < Len(self.inferences)
        /\ isinstance(self.inferences[r.i + 1], {"ModI"})
        /\ LET q == modus_ponens(r.res, self.inferences[r.i + 1])
           IN  runs' = [runs EXCEPT ![c] =
                   IF IsRaise(q) THEN [r EXCEPT !.pc = "raised", !.exc = q]
                   ELSE IF q = None THEN [r EXCEPT !.pc = "verify", !.ret = None]
                   ELSE [r EXCEPT !.res = Append(r.res, q), !.i = r.i + 1]]
        /\ UNCHANGED <<proofs, goal, inferences, res, i, pc, ret, result, exc, mr>>

(* One iteration of the for loop of call c on a step that is neither an     *)
(* AxiomI nor a ModI.                                                       *)
CallOtherStep(c) ==
    LET r == runs[c]
        self == proofs[r.proof]
    IN  /\ r.pc = "statements"
        /\ r.i < Len(self.inferences)
        /\ ~isinstance(self.inferences[r.i + 1], {"AxiomI"})
        /\ ~isinstance(self.inferences[r.i + 1], {"ModI"})
        /\ runs' = [runs EXCEPT ![c] =
               [r EXCEPT !.pc = "raised", !.exc = Raise("ValueError")]]
        /\ UNCHANGED <<proofs, goal, inferences, res, i, pc, ret, result, exc, mr>>

(* The for loop of call c is exhausted: return res. *)
CallStatementsReturn(c) ==
    LET r == runs[c]
        self == proofs[r.proof]
    IN  /\ r.pc = "statements"
        /\ r.i = Len(self.inferences)
        /\ runs' = [runs EXCEPT ![c] = [r EXCEPT !.pc = "verify", !.ret = List(r.res)]]
        /\ UNCHANGED <<proofs, goal, inferences, res, i, pc, ret, result, exc, mr>>

(* verify() of call c after its call of statements(). *)
CallVerifyReturn(c) ==
    LET r == runs[c]
        self == proofs[r.proof]
    IN  /\ r.pc = "verify"
        /\ runs' = [runs EXCEPT ![c] =
               [r EXCEPT !.pc = "done", !.result = verify(r.ret, self.goal)]]
        /\ UNCHANGED <<proofs, goal, inferences, res, i, pc, ret, result, exc, mr>>

NextCalls ==
    \/ \E c \in Callers : CallAxiomIStep(c)
    \/ \E c \in Callers : CallModIStep(c)
    \/ \E c \in Callers : CallOtherStep(c)
    \/ \E c \in Callers : CallStatementsReturn(c)
    \/ \E c \in Callers : CallVerifyReturn(c)

SpecCalls == InitCalls /\ [][NextCalls]_vars

(* Proof.statements as a function of the list it replays: the list, None,   *)
(* or the exception, continuing from step k + 1 with the lines in trace.    *)
RECURSIVE statements_from(_, _, _)
statements_from(infs, k, trace) ==
    IF k = Len(infs) THEN List(trace)
    ELSE LET inf == infs[k + 1]
             out == IF isinstance(inf, {"AxiomI"}) THEN axiom_instance(inf)
                    ELSE IF isinstance(inf, {"ModI"}) THEN modus_ponens(trace, inf)
                    ELSE Raise("ValueError")
         IN  IF IsRaise(out) \/ out = None THEN out
             ELSE statements_from(infs, k + 1, Append(trace, out))

statements(self) == statements_from(self.inferences, 0, <<>>)

(* What a call of verify() on self alone gives: a bool or the exception. *)
verify_alone(self) ==
    LET r == statements(self)
    IN  IF IsRaise(r) THEN r ELSE verify(r, self.goal)

Finished(c) == runs[c].pc \in {"done", "raised"}
Outcome(c) == IF runs[c].pc = "raised" THEN runs[c].exc ELSE runs[c].result

(* C12: no step of any call changes a Proof's goal or inferences, and two   *)
(* finished calls on the same Proof object have the same outcome.           *)
C12_CallsLeaveProofsAlone ==
    /\ [][proofs' = proofs]_vars
    /\ [](\A c \in Callers, d \in Callers :
             (Finished(c) /\ Finished(d) /\ runs[c].proof = runs[d].proof)
                 => Outcome(c) = Outcome(d))

(* Two finished calls on one Proof object, both returning True from a       *)
(* three-line trace.                                                        *)
C12_Witness ==
    /\ runs # <<>>
    /\ runs["c1"].proof = runs["c2"].proof
    /\ runs["c1"].pc = "done" /\ runs["c2"].pc = "done"
    /\ runs["c1"].result = True /\ runs["c2"].result = True
    /\ Len(runs["c1"].res) = 3

(* C13: in any interleaving, what a call has in res is what the replay of   *)
(* the steps it has consumed gives alone, and the outcome of a finished     *)
(* call is the outcome of that call run alone on its Proof.                 *)
C13_InterleavedAsAlone ==
    \A c \in DOMAIN runs :
        /\ statements([inferences |-> SubSeq(proofs[runs[c].proof].inferences,
                                             1, runs[c].i)])
               = List(runs[c].res)
        /\ Finished(c) => Outcome(c) = verify_alone(proofs[runs[c].proof])

(* Two calls on different Proof objects: one finished with True while the   *)
(* other is inside its loop with a line in its own trace.                   *)
C13_Witness ==
    /\ runs # <<>>
    /\ runs["c1"].proof # runs["c2"].proof
    /\ proofs[runs["c1"].proof] # proofs[runs["c2"].proof]
    /\ runs["c1"].pc = "done"
    /\ runs["c1"].result = True
    /\ runs["c2"].pc = "statements"
    /\ runs["c2"].i >= 1
    /\ runs["c2"].res # runs["c1"].res

-----------------------------------------------------------------------------
(* parse called on its own *)

MaxLen == 4

ParseChars == {33, 97, 66, 62, 45, 233, 201}
Strings == UNION {[1..n -> ParseChars] : n \in 0..MaxLen}

InitParse ==
    /\ mr \in [tag : {"parse"}, term : Strings, ret : {NoValue}]
    /\ NoVerify

ParseCall ==
    /\ mr.tag = "parse"
    /\ mr.ret = NoValue
    /\ mr' = [mr EXCEPT !.ret = parse(mr.term)]
    /\ UNCHANGED <<goal, inferences, res, i, pc, ret, result, exc, proofs, runs>>

NextParse == ParseCall

SpecParse == InitParse /\ [][NextParse]_vars

(* The terms whose notation fits in MaxLen characters, and the prefix       *)
(* notation as a relation: str is a notation of the term t.                 *)
NotatedLeaves == {Va, Var(233), MetaVar(ord(<<66>>)), MetaVar(201), ContInst}
RECURSIVE NotatedWith(_)
NotatedWith(n) ==
    IF n = 0 THEN NotatedLeaves
    ELSE UNION {{Imply(p, q) : p \in NotatedWith(k), q \in NotatedWith(n - 1 - k)} :
                k \in 0..(n - 1)}
Notated == UNION {NotatedWith(n) : n \in 0..((MaxLen - 1) \div 2)}

RECURSIVE Denotes(_, _)
Denotes(str, t) ==
    IF t.tag = "Cont" THEN str = <<33>>
    ELSE IF t.tag = "Var"
    THEN Len(str) = 1 /\ isalpha(str) /\ islower(str) /\ ord(str) = t.value
    ELSE IF t.tag = "MetaVar"
    THEN Len(str) = 1 /\ isalpha(str) /\ isupper(str) /\ ord(str) = t.value
    ELSE /\ Len(str) >= 3
         /\ str[1] # 33
         /\ ~(isalpha(<<str[1]>>) /\ (islower(<<str[1]>>) \/ isupper(<<str[1]>>)))
         /\ \E k \in 2..(Len(str) - 1) :
                /\ Denotes(SubSeq(str, 2, k), t.premise)
                /\ Denotes(SubSeq(str, k + 1, Len(str)), t.conclusion)

(* C14: parse returns the term its argument denotes, "!" denoting Cont(),   *)
(* a term meta_replace accepts; an argument that goes on after one complete *)
(* term is rejected with an error.                                          *)
C14_ParseDenotes ==
    (mr.tag = "parse" /\ mr.ret # NoValue) =>
        \A t \in Notated :
            /\ Denotes(mr.term, t) =>
                   /\ mr.ret = t
                   /\ ~IsRaise(meta_replace(mr.ret, ord(<<66>>), Va))
            /\ (\E k \in 1..(Len(mr.term) - 1) : Denotes(SubSeq(mr.term, 1, k), t))
                   => IsRaise(mr.ret)

-----------------------------------------------------------------------------
(* C15: every line k of the trace that a ModI(implication = m, premise = n) *)
(* produced satisfies trace[m] = Imply(trace[n], trace[k]), with m and n    *)
(* the indices of lines that were in the trace before line k.               *)
C15_ModusPonensInvariant ==
    \A k \in 1..Len(res) :
        inferences[k].tag = "ModI" =>
            /\ Present(TraceBefore(k), inferences[k].implication)
            /\ Present(TraceBefore(k), inferences[k].premise)
            /\ res[inferences[k].implication + 1]
                   = Imply(res[inferences[k].premise + 1], res[k])


(* Classical truth of a term under an assignment v of truth values to the   *)
(* variables: Cont() is false, Imply is material implication.               *)
RECURSIVE Holds(_, _)
Holds(t, v) ==
    IF t.tag = "Var" THEN v[t.value]
    ELSE IF t.tag = "Imply" THEN Holds(t.premise, v) => Holds(t.conclusion, v)
    ELSE FALSE

Assignments == [{ord(<<97>>), ord(<<98>>), ord(<<99>>)} -> BOOLEAN]
Tautology(t) == \A v \in Assignments : Holds(t, v)

RECURSIVE HasMetaVar(_)
HasMetaVar(t) ==
    IF t.tag = "MetaVar" THEN TRUE
    ELSE IF t.tag = "Imply" THEN HasMetaVar(t.premise) \/ HasMetaVar(t.conclusion)
    ELSE FALSE

(* Every AxiomI of the proof supplies three terms without metavariables. *)
SuppliedMetaFree ==
    \A k \in 1..Len(inferences) :
        inferences[k].tag = "AxiomI" =>
            \A n \in 1..3 : ~HasMetaVar(inferences[k].terms[n])

(* C16: for a proof whose supplied terms have no metavariable, every line   *)
(* of the trace is a classical tautology, and verify() returns True only    *)
(* for a goal that is one.                                                  *)
C16_Soundness ==
    SuppliedMetaFree =>
        /\ \A k \in 1..Len(res) : Tautology(res[k])
        /\ (pc = "done" /\ result = True) => Tautology(goal)

(* A finished run that returned True for a goal derived by a ModI as the    *)
(* third line.                                                              *)
C16_Witness ==
    /\ SuppliedMetaFree
    /\ pc = "done"
    /\ result = True
    /\ Len(res) = 3
    /\ inferences[3].tag = "ModI"
    /\ goal = res[3]
    /\ goal # res[1] /\ goal # res[2]


(* t with A, B and C replaced by X, Y and Z at once, in one pass. *)
RECURSIVE Simultaneous(_, _, _, _)
Simultaneous(t, X, Y, Z) ==
    IF t.tag = "Imply"
    THEN Imply(Simultaneous(t.premise, X, Y, Z), Simultaneous(t.conclusion, X, Y, Z))
    ELSE IF t = MetaVar(ord(<<65>>)) THEN X
    ELSE IF t = MetaVar(ord(<<66>>)) THEN Y
    ELSE IF t = MetaVar(ord(<<67>>)) THEN Z
    ELSE t

(* C17: for every schema of the table and terms X, Y, Z without             *)
(* metavariables, an examined AxiomI has appended the term that replacing   *)
(* A, B, C by X, Y, Z at once in the schema gives.                          *)
C17_SequentialIsSimultaneous ==
    \A j \in 1..Len(inferences) :
        (/\ Examined(j)
         /\ inferences[j].tag = "AxiomI"
         /\ inferences[j].index \in 0..(Len(axioms) - 1)
         /\ \A n \in 1..3 : ~HasMetaVar(inferences[j].terms[n])) =>
            /\ AcceptedAt(j)
            /\ res[j] = Simultaneous(axioms[inferences[j].index + 1],
                                     inferences[j].terms[1], inferences[j].terms[2],
                                     inferences[j].terms[3])


(* C18: for a proof whose supplied terms have no metavariable, no line of   *)
(* the trace holds a MetaVar, whether an AxiomI or a ModI produced it.      *)
C18_NoMetaVarInTrace ==
    SuppliedMetaFree => \A k \in 1..Len(res) : ~HasMetaVar(res[k])

(* A returned trace of two axiom instances and the line a ModI drew from    *)
(* them.                                                                    *)
C18_Witness ==
    /\ SuppliedMetaFree
    /\ pc = "verify"
    /\ ret.tag = "list"
    /\ Len(res) = 3
    /\ inferences[1].tag = "AxiomI"
    /\ inferences[2].tag = "AxiomI"
    /\ inferences[3].tag = "ModI"

(* C19: the trace starts empty, its length is the number of steps consumed, *)
(* line j is what step j produced, a step appends at most one line and      *)
(* changes none, and a returned trace has one line per step.                *)
C19_TraceLength ==
    /\ [](/\ Len(res) = i
          /\ i <= Len(inferences)
          /\ ret.tag = "list" => (ret.items = res /\ Len(res) = Len(inferences))
          /\ \A j \in 1..Len(res) :
                IF inferences[j].tag = "AxiomI"
                THEN \E k \in 0..3 :
                        res[j] = Instance(k, inferences[j].terms[1],
                                          inferences[j].terms[2], inferences[j].terms[3])
                ELSE \E m \in 1..(j - 1) :
                        res[m].tag = "Imply" /\ res[m].conclusion = res[j])
    /\ [][\/ res' = res /\ i' = i
          \/ /\ i' = i + 1
             /\ Len(res') = Len(res) + 1
             /\ SubSeq(res', 1, Len(res)) = res]_vars

(* A returned trace of three lines for three steps, the last a ModI. *)
C19_Witness ==
    /\ pc = "done"
    /\ ret.tag = "list"
    /\ Len(inferences) = 3
    /\ Len(ret.items) = 3
    /\ inferences[3].tag = "ModI"
    /\ result = False

(* No action of Next is enabled: each one asks for pc = "statements" or for *)
(* pc = "verify".                                                           *)
Halted == pc \notin {"statements", "verify"}

(* C20: the replay consumes the steps in order, at most len(inferences) of  *)
(* them, and a state where it has stopped is a returned verify(): Derived   *)
(* or Failed.                                                               *)
C20_SinglePassTerminates ==
    /\ i <= Len(inferences)
    /\ Halted => (pc = "done" /\ result \in {True, False})

====
